---- MODULE Spec2Model ----
(***************************************************************************)
(* A model of the hedge half-edge mesh kernel (src/src/kernel.rs,          *)
(* src/src/lib.rs, src/src/utils.rs): four generational element buffers,   *)
(* add / remove / get, the construction helpers and Kernel::defrag.        *)
(*                                                                         *)
(* A buffer is a sequence of cells; the cell of offset o is buffer[o + 1], *)
(* so buffer[1] is the reserved sentinel of offset 0.                      *)
(***************************************************************************)
EXTENDS Integers, Sequences, FiniteSets

\* ------------------------------------------------------------------ bounds

\* Most cells (sentinel excluded) of each buffer, per workload: the workload
\* a behaviour runs decides which operations it uses (Ops below).
MaxTwinEdges == 4
MaxLoopEdges == 2
MaxLoopFaces == 1
MaxFaces == 3
MaxFaceEdges == 2
MaxPoints == 3
MaxPointVerts == 1
MaxSharedPoints == 2
MaxSharedVerts == 2
MaxVerts == 2
MaxVertEdges == 2

\* A cell whose generation reached MaxGen is not removed again.
MaxGen == 2

\* The cells the arena harness may use, and the largest foo it pushes.
MaxArenaCells == 2
MaxFoo == 1

\* The cells the harness of the rectify plans may use.
MaxPlanCells == 4

\* The width of a generation counter.  Generation is u32 in the source; TLC's
\* integers stop short of 2^32, so the model keeps the arithmetic of
\* ElementBuffer::remove and scales the width.
GenBits == 4

\* The width of the tag counter of a Mesh.  Tag is u32 in the source; the
\* model keeps the arithmetic of fetch_add and scales the width.
TagBits == 2

\* The cells the mesh harness may use per buffer (edges: when it calls the
\* construction helpers with any edge, and when it builds one loop), and
\* the faces of the largest fan it builds.
MaxMeshEdges == 4
MaxBuiltEdges == 6
MaxMeshVerts == 2
MaxMeshFaces == 1
MaxFanPoints == 2
MaxFanFaces == 4

\* The edge cells of a tangle, and the items an iterator may return beyond
\* the number of edges before the harness stops calling it.
MaxTangleEdges == 2
MaxOverrun == 2

\* The edges and vertices of the spokes the walks step over.
MaxSpokeEdges == 3
MaxSpokeVerts == 1

\* ------------------------------------------------------- program constants

INVALID_COMPONENT_OFFSET == 0
\* u32::max_value() at the model's width, the value ElementBuffer::remove
\* never stores.
U32Max == 2 ^ GenBits - 1

\* Point payloads (PointData.position), abstracted to two values.
Positions == {"P", "Q"}

\* ----------------------------------------------------------------- handles

\* Index<T>: (offset, generation).
Index(offset, generation) == [offset |-> offset, generation |-> generation]

\* Index::default(): offset 0, generation 0.
DefaultIndex == Index(0, 0)

\* IsValid for Index<T>.
is_valid(index) == index.offset # INVALID_COMPONENT_OFFSET

\* ---------------------------------------------------------------- elements

DefaultEdgeData ==
    [twin_index |-> DefaultIndex, next_index |-> DefaultIndex,
     prev_index |-> DefaultIndex, face_index |-> DefaultIndex,
     vertex_index |-> DefaultIndex]

DefaultVertexData == [edge_index |-> DefaultIndex, point_index |-> DefaultIndex]

DefaultFaceData == [edge_index |-> DefaultIndex]

DefaultPointData == [position |-> "P"]

\* MeshElement::with_data: tag 0, generation 1, status INACTIVE.  The id
\* field is not program state: it is 0 except while Kernel::defrag runs,
\* when it carries the offset the cell had before the call, so that a
\* property can say which element a cell holds after the cells were moved.
MeshElement(data) ==
    [tag |-> 0, generation |-> 1, status |-> "INACTIVE", data |-> data, id |-> 0]

is_active(element) == element.status = "ACTIVE"

\* ----------------------------------------------------------- ElementBuffer

\* ElementBuffer::default(): no free cell, one sentinel cell.
NewBuffer(data) == [free_cells |-> << >>, buffer |-> << MeshElement(data) >>]

\* The cell of an offset inside the buffer.
Cell(eb, offset) == eb.buffer[offset + 1]

\* The offsets of the buffer, sentinel excluded.
Offsets1(eb) == 1 .. (Len(eb.buffer) - 1)

\* eb with the data of the cell of an offset replaced.
SetData(eb, offset, data) ==
    [eb EXCEPT !.buffer = [eb.buffer EXCEPT ![offset + 1].data = data]]

\* ElementBuffer::len: buffer.len() - free_cells.len().
len(eb) == Len(eb.buffer) - Len(eb.free_cells)

has_inactive_cells(eb) == Len(eb.free_cells) # 0

\* Option::None of a cell reference; Some(cell) is the cell's offset.
None == -1

ensure_matching_generation(element, index) ==
    IF index.generation > 0
    THEN element.generation = index.generation
    ELSE TRUE

\* ElementBuffer::get checking the generation only.
get_GenerationOnly(eb, index) ==
    IF index.offset < Len(eb.buffer)
       /\ ensure_matching_generation(Cell(eb, index.offset), index)
    THEN index.offset
    ELSE None

\* ElementBuffer::get: the offset of the cell the index resolves to, or None.
get(eb, index) ==
    IF is_valid(index)
       /\ index.offset < Len(eb.buffer)
       /\ is_active(Cell(eb, index.offset))
       /\ ensure_matching_generation(Cell(eb, index.offset), index)
    THEN index.offset
    ELSE None

\* ElementBuffer::add: the buffer after the call and the index returned.
add(eb, element) ==
    IF Len(eb.free_cells) > 0
    THEN LET index == eb.free_cells[Len(eb.free_cells)]
             cell == [element EXCEPT !.status = "ACTIVE",
                                     !.generation = index.generation]
         IN  [eb    |-> [free_cells |-> SubSeq(eb.free_cells, 1, Len(eb.free_cells) - 1),
                         buffer     |-> [eb.buffer EXCEPT ![index.offset + 1] = cell]],
              index |-> index]
    ELSE LET index == Index(Len(eb.buffer), element.generation)
             cell == [element EXCEPT !.status = "ACTIVE"]
         IN  [eb    |-> [eb EXCEPT !.buffer = Append(eb.buffer, cell)],
              index |-> index]

\* The increment of a generation without the test for u32::max_value(),
\* at the width of the generation.
NextGeneration_Unguarded(generation) ==
    (generation + 1) % (U32Max + 1)

\* The generation a removed cell gets.
NextGeneration(generation) ==
    IF generation + 1 = U32Max THEN 1 ELSE generation + 1

\* ElementBuffer::remove acting on the cell of the offset whether or not
\* the index resolves.
remove_Unchecked(eb, index) ==
    IF index.offset < Len(eb.buffer)
    THEN LET cell == Cell(eb, index.offset)
             gen  == NextGeneration(cell.generation)
         IN  [free_cells |-> Append(eb.free_cells, Index(index.offset, gen)),
              buffer     |-> [eb.buffer EXCEPT
                                 ![index.offset + 1].generation = gen,
                                 ![index.offset + 1].status = "INACTIVE"]]
    ELSE eb

\* ElementBuffer::remove.
remove(eb, index) ==
    IF get(eb, index) # None
    THEN LET cell == Cell(eb, index.offset)
             gen  == NextGeneration(cell.generation)
         IN  [free_cells |-> Append(eb.free_cells, Index(index.offset, gen)),
              buffer     |-> [eb.buffer EXCEPT
                                 ![index.offset + 1].generation = gen,
                                 ![index.offset + 1].status = "INACTIVE"]]
    ELSE eb

\* The subsequence of the cells that satisfy / do not satisfy is_active.
RECURSIVE ActiveOnly(_)
ActiveOnly(cells) ==
    IF cells = << >> THEN << >>
    ELSE IF is_active(Head(cells))
         THEN << Head(cells) >> \o ActiveOnly(Tail(cells))
         ELSE ActiveOnly(Tail(cells))

RECURSIVE InactiveOnly(_)
InactiveOnly(cells) ==
    IF cells = << >> THEN << >>
    ELSE IF is_active(Head(cells))
         THEN InactiveOnly(Tail(cells))
         ELSE << Head(cells) >> \o InactiveOnly(Tail(cells))

\* ElementBuffer::sort: a stable sort of buffer[1..], ACTIVE before INACTIVE.
sort(eb) ==
    [eb EXCEPT !.buffer =
        << eb.buffer[1] >> \o ActiveOnly(Tail(eb.buffer)) \o InactiveOnly(Tail(eb.buffer))]

\* truncate_inactive leaving the free list as it was.
truncate_inactive_KeepsFree(eb) ==
    LET total    == Len(eb.buffer)
        inactive == Len(eb.free_cells)
        active   == total - inactive
    IN  [eb EXCEPT !.buffer = SubSeq(eb.buffer, 1, active)]

\* truncate_inactive truncating to the number of free cells.
truncate_inactive_ToInactive(eb) ==
    LET inactive == Len(eb.free_cells)
    IN  [free_cells |-> << >>, buffer |-> SubSeq(eb.buffer, 1, inactive)]

\* ElementBuffer::truncate_inactive.
truncate_inactive(eb) ==
    LET total    == Len(eb.buffer)
        inactive == Len(eb.free_cells)
        active   == total - inactive
    IN  [free_cells |-> << >>, buffer |-> SubSeq(eb.buffer, 1, active)]

\* ElementBuffer::next_swap_pair: << inactive offset, active offset >>, or
\* << >> for Option::None.
next_swap_pair(eb) ==
    LET inactive == {o \in Offsets1(eb) : ~is_active(Cell(eb, o))}
        active   == {o \in Offsets1(eb) : is_active(Cell(eb, o))}
    IN  IF inactive # {} /\ active # {}
        THEN LET inactive_offset == CHOOSE o \in inactive : \A p \in inactive : o <= p
                 active_offset   == CHOOSE o \in active : \A p \in active : p <= o
             IN  IF active_offset < inactive_offset
                 THEN << >>
                 ELSE << inactive_offset, active_offset >>
        ELSE << >>

\* Vec::swap on the cells of two offsets.
swap(eb, a, b) ==
    [eb EXCEPT !.buffer = [eb.buffer EXCEPT ![a + 1] = eb.buffer[b + 1],
                                            ![b + 1] = eb.buffer[a + 1]]]

\* ------------------------------------------------------------------ Kernel

\* Kernel::default().
NewKernel ==
    [edge_buffer   |-> NewBuffer(DefaultEdgeData),
     face_buffer   |-> NewBuffer(DefaultFaceData),
     vertex_buffer |-> NewBuffer(DefaultVertexData),
     point_buffer  |-> NewBuffer(DefaultPointData)]

\* The outcome of a call that may panic: the kernel it leaves, and whether
\* it returned (ok) or unwound from a panic.
Outcome(k, ok) == [k |-> k, ok |-> ok]

\* The loop of defrag_faces' for_each closure: stamps face_index on the
\* edges met from the root edge along next_index.  The cell is indexed by
\* offset alone (buffer[offset]), which panics past the end of the buffer.
RECURSIVE FaceLoopWalk(_, _, _, _)
FaceLoopWalk(eb, face_index, root_edge_index, edge_index) ==
    IF edge_index.offset >= Len(eb.buffer)
    THEN [eb |-> eb, ok |-> FALSE]
    ELSE LET data == Cell(eb, edge_index.offset).data
         IN  IF data.face_index = face_index
             THEN [eb |-> eb, ok |-> TRUE]
             ELSE LET eb2 == SetData(eb, edge_index.offset,
                                     [data EXCEPT !.face_index = face_index])
                  IN  IF data.next_index = root_edge_index
                      THEN [eb |-> eb2, ok |-> TRUE]
                      ELSE FaceLoopWalk(eb2, face_index, root_edge_index, data.next_index)

\* defrag_faces' iterator chain over active_cells(), from offset o on: the
\* filter and the for_each of one face run before the filter of the next.
RECURSIVE RelinkFaces(_, _, _)
RelinkFaces(fb, eb, o) ==
    IF o >= Len(fb.buffer)
    THEN [eb |-> eb, ok |-> TRUE]
    ELSE LET face == Cell(fb, o)
             index == Index(o, face.generation)
             root_edge_index == face.data.edge_index
         IN  IF is_active(face)
                /\ get(eb, root_edge_index) # None
                /\ index # Cell(eb, root_edge_index.offset).data.face_index
             THEN LET r == FaceLoopWalk(eb, index, root_edge_index, root_edge_index)
                  IN  IF r.ok THEN RelinkFaces(fb, r.eb, o + 1) ELSE r
             ELSE RelinkFaces(fb, eb, o + 1)

\* Kernel::defrag_faces.
defrag_faces(k) ==
    IF has_inactive_cells(k.face_buffer)
    THEN LET fb == sort(k.face_buffer)
             r  == RelinkFaces(fb, k.edge_buffer, 0)
         IN  IF r.ok
             THEN Outcome([k EXCEPT !.face_buffer = truncate_inactive(fb),
                                    !.edge_buffer = r.eb], TRUE)
             ELSE Outcome([k EXCEPT !.face_buffer = fb, !.edge_buffer = r.eb], FALSE)
    ELSE Outcome(k, TRUE)

\* defrag_verts' iterator chain over active_cells(), from offset o on.
RECURSIVE RelinkVerts(_, _, _)
RelinkVerts(vb, eb, o) ==
    IF o >= Len(vb.buffer)
    THEN eb
    ELSE LET vertex == Cell(vb, o)
             vert_index == Index(o, vertex.generation)
             eindex == vertex.data.edge_index
         IN  IF is_active(vertex)
                /\ get(eb, eindex) # None
                /\ vert_index # Cell(eb, eindex.offset).data.vertex_index
             THEN RelinkVerts(vb,
                      SetData(eb, eindex.offset,
                          [Cell(eb, eindex.offset).data EXCEPT !.vertex_index = vert_index]),
                      o + 1)
             ELSE RelinkVerts(vb, eb, o + 1)

\* Kernel::defrag_verts.
defrag_verts(k) ==
    IF has_inactive_cells(k.vertex_buffer)
    THEN LET vb == sort(k.vertex_buffer)
         IN  [k EXCEPT !.vertex_buffer = truncate_inactive(vb),
                       !.edge_buffer = RelinkVerts(vb, k.edge_buffer, 0)]
    ELSE k

\* defrag_points rebinding the vertices at the offset the point moved to.
RebindPoint_AtTarget(vb, active_offset, swapped_index) ==
    [vb EXCEPT !.buffer =
        [i \in DOMAIN vb.buffer |->
            IF i > 1 /\ is_active(vb.buffer[i])
               /\ vb.buffer[i].data.point_index.offset = swapped_index.offset
            THEN [vb.buffer[i] EXCEPT !.data.point_index = swapped_index]
            ELSE vb.buffer[i]]]

\* The vertex buffer after defrag_points' scan for one swap: every active
\* vertex whose point offset is active_offset gets swapped_index.
RebindPoint(vb, active_offset, swapped_index) ==
    [vb EXCEPT !.buffer =
        [i \in DOMAIN vb.buffer |->
            IF i > 1 /\ is_active(vb.buffer[i])
               /\ vb.buffer[i].data.point_index.offset = active_offset
            THEN [vb.buffer[i] EXCEPT !.data.point_index = swapped_index]
            ELSE vb.buffer[i]]]

\* The swap loop of defrag_points.
RECURSIVE PointSwapLoop(_)
PointSwapLoop(k) ==
    LET offsets == next_swap_pair(k.point_buffer)
    IN  IF offsets = << >>
        THEN k
        ELSE LET inactive_offset == offsets[1]
                 active_offset   == offsets[2]
                 pb == swap(k.point_buffer, inactive_offset, active_offset)
                 swapped_index ==
                     Index(inactive_offset, Cell(pb, inactive_offset).generation)
             IN  PointSwapLoop(
                     [k EXCEPT !.point_buffer = pb,
                               !.vertex_buffer =
                                   RebindPoint(k.vertex_buffer, active_offset, swapped_index)])

\* Kernel::defrag_points.  Its last statement truncates the vertex buffer.
defrag_points(k) ==
    IF has_inactive_cells(k.point_buffer)
    THEN LET k2 == PointSwapLoop(k)
         IN  [k2 EXCEPT !.vertex_buffer = truncate_inactive(k2.vertex_buffer)]
    ELSE k

\* defrag_edges with the twin of the moved edge left as it was.
RewriteEdge_TwinKept(eb, offset, field, swapped_index) ==
    IF field = "twin_index"
    THEN eb
    ELSE SetData(eb, offset, [Cell(eb, offset).data EXCEPT ![field] = swapped_index])

\* defrag_edges' `x_edge.data_mut().field = swapped_index`, on the edge of
\* an offset.
RewriteEdge(eb, offset, field, swapped_index) ==
    SetData(eb, offset, [Cell(eb, offset).data EXCEPT ![field] = swapped_index])

\* The body of defrag_edges' loop for one swap pair.  swapped_data is a
\* RefCell borrow of the moved edge's data that lives to the end of the
\* body, so data_mut() on the moved edge itself (a next, prev or twin index
\* that resolves to the cell it was moved into) panics with BorrowMutError,
\* after the updates made before it.
EdgeSwapStep(k, inactive_offset, active_offset) ==
    LET eb0 == swap(k.edge_buffer, inactive_offset, active_offset)
        swapped == Cell(eb0, inactive_offset)
        swapped_data == swapped.data
        swapped_index == Index(inactive_offset, swapped.generation)
        next_edge == get(eb0, swapped_data.next_index)
        prev_edge == get(eb0, swapped_data.prev_index)
        twin_edge == get(eb0, swapped_data.twin_index)
        eb1 == IF next_edge # None /\ next_edge # inactive_offset
               THEN RewriteEdge(eb0, next_edge, "prev_index", swapped_index)
               ELSE eb0
        eb2 == IF prev_edge # None /\ prev_edge # inactive_offset
               THEN RewriteEdge(eb1, prev_edge, "next_index", swapped_index)
               ELSE eb1
        eb3 == IF twin_edge # None /\ twin_edge # inactive_offset
               THEN RewriteEdge(eb2, twin_edge, "twin_index", swapped_index)
               ELSE eb2
        face == get(k.face_buffer, swapped_data.face_index)
        fb == IF face # None
                 /\ Cell(k.face_buffer, face).data.edge_index.offset = active_offset
              THEN SetData(k.face_buffer, face,
                       [Cell(k.face_buffer, face).data EXCEPT !.edge_index = swapped_index])
              ELSE k.face_buffer
        vertex == get(k.vertex_buffer, swapped_data.vertex_index)
        vb == IF vertex # None
                 /\ Cell(k.vertex_buffer, vertex).data.edge_index.offset = active_offset
              THEN SetData(k.vertex_buffer, vertex,
                       [Cell(k.vertex_buffer, vertex).data EXCEPT !.edge_index = swapped_index])
              ELSE k.vertex_buffer
    IN  IF next_edge = inactive_offset
        THEN Outcome([k EXCEPT !.edge_buffer = eb0], FALSE)
        ELSE IF prev_edge = inactive_offset
        THEN Outcome([k EXCEPT !.edge_buffer = eb1], FALSE)
        ELSE IF twin_edge = inactive_offset
        THEN Outcome([k EXCEPT !.edge_buffer = eb2], FALSE)
        ELSE Outcome([k EXCEPT !.edge_buffer = eb3, !.face_buffer = fb,
                               !.vertex_buffer = vb], TRUE)

\* The swap loop of defrag_edges.
RECURSIVE EdgeSwapLoop(_)
EdgeSwapLoop(k) ==
    LET offsets == next_swap_pair(k.edge_buffer)
    IN  IF offsets = << >>
        THEN Outcome(k, TRUE)
        ELSE LET r == EdgeSwapStep(k, offsets[1], offsets[2])
             IN  IF r.ok THEN EdgeSwapLoop(r.k) ELSE r

\* Kernel::defrag_edges.
defrag_edges(k) ==
    IF has_inactive_cells(k.edge_buffer)
    THEN LET r == EdgeSwapLoop(k)
         IN  IF r.ok
             THEN Outcome([r.k EXCEPT !.edge_buffer = truncate_inactive(r.k.edge_buffer)],
                          TRUE)
             ELSE r
    ELSE Outcome(k, TRUE)

\* Kernel::inactive_element_count.
inactive_element_count(k) ==
    Len(k.face_buffer.free_cells) + Len(k.edge_buffer.free_cells)
        + Len(k.vertex_buffer.free_cells) + Len(k.point_buffer.free_cells)

\* Kernel::active_element_count.
active_element_count(k) ==
    len(k.face_buffer) + len(k.edge_buffer) + len(k.vertex_buffer) + len(k.point_buffer)

\* Kernel::defrag: faces, vertices, points, edges.
defrag(k) ==
    IF inactive_element_count(k) > 0
    THEN LET f == defrag_faces(k)
         IN  IF f.ok
             THEN defrag_edges(defrag_points(defrag_verts(f.k)))
             ELSE f
    ELSE Outcome(k, TRUE)

\* ----------------------------------------------------------- function sets

\* EdgeFn::twin / next / prev / face / vertex: the index stored in that field
\* of the edge, the default index when the edge does not resolve
\* (FunctionSet::maybe).
EdgeField(k, index, field) ==
    IF get(k.edge_buffer, index) # None
    THEN Cell(k.edge_buffer, index.offset).data[field]
    ELSE DefaultIndex

EdgeFn_twin(k, index) == EdgeField(k, index, "twin_index")

EdgeFn_next(k, index) == EdgeField(k, index, "next_index")

EdgeFn_prev(k, index) == EdgeField(k, index, "prev_index")

EdgeFn_face(k, index) == EdgeField(k, index, "face_index")

EdgeFn_vertex(k, index) == EdgeField(k, index, "vertex_index")

\* FaceFn::edge and VertexFn::edge.
FaceFn_edge(k, index) ==
    IF get(k.face_buffer, index) # None
    THEN Cell(k.face_buffer, index.offset).data.edge_index
    ELSE DefaultIndex

VertexFn_edge(k, index) ==
    IF get(k.vertex_buffer, index) # None
    THEN Cell(k.vertex_buffer, index.offset).data.edge_index
    ELSE DefaultIndex

\* IsValid for FaceFn: the handle resolves.
FaceFn_is_valid(k, index) == get(k.face_buffer, index) # None

\* EdgeFn::is_boundary looking at the face of the edge only.
is_boundary_OwnFace(k, index) ==
    ~FaceFn_is_valid(k, EdgeFn_face(k, index))

\* EdgeFn::is_boundary.
is_boundary(k, index) ==
    \/ ~FaceFn_is_valid(k, EdgeFn_face(k, index))
    \/ ~FaceFn_is_valid(k, EdgeFn_face(k, EdgeFn_twin(k, index)))

\* ------------------------------------------------- construction helpers

\* A statement sequence: F applied to the value of an earlier statement, the
\* value computed once.
With(value, F(_)) == CHOOSE r \in {F(x) : x \in {value}} : TRUE

\* utils::build_full_edge: the kernel after the call and the index returned.
build_full_edge(k, v0, v1) ==
    LET a0 == add(k.edge_buffer,
                  MeshElement([DefaultEdgeData EXCEPT !.vertex_index = v0]))
        e0 == a0.index
        a1 == add(a0.eb,
                  MeshElement([DefaultEdgeData EXCEPT !.twin_index = e0,
                                                      !.vertex_index = v1]))
        e1 == a1.index
        eb == IF get(a1.eb, e0) # None
              THEN SetData(a1.eb, e0.offset,
                       [Cell(a1.eb, e0.offset).data EXCEPT !.twin_index = e1])
              ELSE a1.eb
        vb0 == IF get(k.vertex_buffer, v0) # None
               THEN SetData(k.vertex_buffer, v0.offset,
                        [Cell(k.vertex_buffer, v0.offset).data EXCEPT !.edge_index = e0])
               ELSE k.vertex_buffer
        vb1 == IF get(vb0, v1) # None
               THEN SetData(vb0, v1.offset,
                        [Cell(vb0, v1.offset).data EXCEPT !.edge_index = e1])
               ELSE vb0
    IN  [k |-> [k EXCEPT !.edge_buffer = eb, !.vertex_buffer = vb1], index |-> e0]

\* utils::build_half_edge: the kernel after the call and the index returned.
build_half_edge(k, twin, vert) ==
    LET a0 == add(k.edge_buffer,
                  MeshElement([DefaultEdgeData EXCEPT !.vertex_index = vert,
                                                      !.twin_index = twin]))
        e0 == a0.index
        eb == IF get(a0.eb, twin) # None
              THEN SetData(a0.eb, twin.offset,
                       [Cell(a0.eb, twin.offset).data EXCEPT !.twin_index = e0])
              ELSE a0.eb
        vb == IF get(k.vertex_buffer, vert) # None
              THEN SetData(k.vertex_buffer, vert.offset,
                       [Cell(k.vertex_buffer, vert.offset).data EXCEPT !.edge_index = e0])
              ELSE k.vertex_buffer
    IN  [k |-> [k EXCEPT !.edge_buffer = eb, !.vertex_buffer = vb], index |-> e0]

\* utils::assoc_vert_edge.
assoc_vert_edge(k, vert, edge) ==
    [k EXCEPT
        !.vertex_buffer =
            IF get(k.vertex_buffer, vert) # None
            THEN SetData(@, vert.offset,
                     [Cell(@, vert.offset).data EXCEPT !.edge_index = edge])
            ELSE @,
        !.edge_buffer =
            IF get(k.edge_buffer, edge) # None
            THEN SetData(@, edge.offset,
                     [Cell(@, edge.offset).data EXCEPT !.vertex_index = vert])
            ELSE @]

\* utils::connect_edges.
connect_edges(k, prev, next) ==
    LET eb1 == IF get(k.edge_buffer, prev) # None
               THEN SetData(k.edge_buffer, prev.offset,
                        [Cell(k.edge_buffer, prev.offset).data EXCEPT !.next_index = next])
               ELSE k.edge_buffer
        eb2 == IF get(eb1, next) # None
               THEN SetData(eb1, next.offset,
                        [Cell(eb1, next.offset).data EXCEPT !.prev_index = prev])
               ELSE eb1
    IN  [k EXCEPT !.edge_buffer = eb2]

\* The loop of utils::assign_face_to_loop, at the edge of index edge_index.
RECURSIVE AssignLoop(_, _, _, _)
AssignLoop(eb, root_edge_index, face_index, edge_index) ==
    IF get(eb, edge_index) = None
    THEN eb
    ELSE LET data == Cell(eb, edge_index.offset).data
         IN  IF data.face_index = face_index
             THEN eb
             ELSE LET eb2 == SetData(eb, edge_index.offset,
                                     [data EXCEPT !.face_index = face_index])
                  IN  IF data.next_index = root_edge_index
                      THEN eb2
                      ELSE AssignLoop(eb2, root_edge_index, face_index, data.next_index)

\* utils::assign_face_to_loop.
assign_face_to_loop(k, root_edge_index, face_index) ==
    IF get(k.face_buffer, face_index) = None
    THEN k
    ELSE LET fb == SetData(k.face_buffer, face_index.offset,
                       [Cell(k.face_buffer, face_index.offset).data
                            EXCEPT !.edge_index = root_edge_index])
         IN  [k EXCEPT !.face_buffer = fb,
                       !.edge_buffer =
                           AssignLoop(k.edge_buffer, root_edge_index, face_index,
                                      root_edge_index)]

\* build_full_edge_from starting the new edge at the origin of prev.
build_full_edge_from_PrevOrigin(k, prev, v1) ==
    With(build_full_edge(k, EdgeFn_vertex(k, prev), v1), LAMBDA b :
    With(connect_edges(b.k, prev, b.index), LAMBDA k1 :
         [k |-> k1, index |-> b.index]))

\* utils::build_full_edge_from: the kernel after the call and the index
\* returned.
build_full_edge_from(k, prev, v1) ==
    With(build_full_edge(k, EdgeFn_vertex(k, EdgeFn_twin(k, prev)), v1), LAMBDA b :
    With(connect_edges(b.k, prev, b.index), LAMBDA k1 :
         [k |-> k1, index |-> b.index]))

\* utils::close_edge_loop: the kernel after the call and the index returned.
close_edge_loop(k, prev, next) ==
    IF get(k.edge_buffer, EdgeFn_twin(k, prev)) # None /\ get(k.edge_buffer, next) # None
    THEN With(build_full_edge(k, EdgeFn_vertex(k, EdgeFn_twin(k, prev)),
                              EdgeFn_vertex(k, next)), LAMBDA b :
         With(connect_edges(b.k, prev, b.index), LAMBDA k1 :
         With(connect_edges(k1, b.index, next), LAMBDA k2 :
              [k |-> k2, index |-> b.index])))
    ELSE [k |-> k, index |-> DefaultIndex]

\* ------------------------------------- hedge-element-buffer: ElementBuffer

INVALID_ELEMENT_OFFSET == 0
INVALID_ELEMENT_GENERATION == 0

\* Handle::new(offset, generation) and Handle::default().
Handle(offset, generation) == [offset |-> offset, generation |-> generation]

DefaultHandle == Handle(INVALID_ELEMENT_OFFSET, INVALID_ELEMENT_GENERATION)

\* The elements of the buffer are the TestElement of its tests, each the
\* value of its field foo; TestElement::default() has foo = 0.
DefaultTestElement == 0

TestElements == 0 .. MaxFoo

\* The outcome of a call that panicked, where a value was expected.
Panic == -2

\* ElementBuffer::default(): the sentinel cell, its generation
\* Generation::default(), no free cell.
NewElementBuffer ==
    [buffer      |-> << DefaultTestElement >>,
     generations |-> << INVALID_ELEMENT_GENERATION >>,
     free_cells  |-> {}]

\* ElementBuffer::clear.
clear(sb) == NewElementBuffer

is_active_cell(sb, offset) == offset \notin sb.free_cells

\* ElementBuffer::len, a usize: (buffer.len() - 1) - free_cells.len().  A
\* negative difference overflows the subtraction: the call panics where
\* overflow is checked and returns the wrapped number where it is not.
eb_len(sb) ==
    LET n == (Len(sb.buffer) - 1) - Cardinality(sb.free_cells)
    IN  IF n >= 0 THEN {n} ELSE {Panic, n + 2 ^ GenBits}

eb_has_inactive_cells(sb) == sb.free_cells # {}

\* ElementBuffer::get (get_mut reads the same cells): the offset of the
\* cell returned, None, or Panic when generations is indexed past its end.
eb_get(sb, handle) ==
    IF ~is_active_cell(sb, handle.offset) THEN None
    ELSE IF handle.offset >= Len(sb.generations) THEN Panic
    ELSE IF sb.generations[handle.offset + 1] # handle.generation THEN None
    ELSE handle.offset

\* The items of ElementBuffer::iter from an offset on: the handle and the
\* element of every cell that is not free, in buffer order.
RECURSIVE IterFrom(_, _)
IterFrom(sb, offset) ==
    IF offset >= Len(sb.buffer) \/ offset >= Len(sb.generations) THEN << >>
    ELSE IF is_active_cell(sb, offset)
         THEN << [handle  |-> Handle(offset, sb.generations[offset + 1]),
                  element |-> sb.buffer[offset + 1]] >> \o IterFrom(sb, offset + 1)
         ELSE IterFrom(sb, offset + 1)

\* ElementBuffer::iter without its skip(1).
iter_FromSentinel(sb) ==
    IterFrom(sb, 0)

\* ElementBuffer::iter (iter_mut visits the same cells).
iter(sb) ==
    IterFrom(sb, 1)

\* ElementBuffer::push leaving a reused cell as it was.
push_CellKept(sb, element) ==
    IF sb.free_cells # {}
    THEN {[sb     |-> [sb EXCEPT !.free_cells = @ \ {offset}],
           handle |-> Handle(offset, sb.generations[offset + 1]),
           ok     |-> TRUE]
          : offset \in sb.free_cells}
    ELSE {[sb     |-> [sb EXCEPT !.buffer = Append(@, element),
                                 !.generations = Append(@, 1)],
           handle |-> Handle(Len(sb.buffer), 1),
           ok     |-> TRUE]}

\* ElementBuffer::push: the outcomes of the call, one for each free offset
\* the iterator of the HashSet may yield first: the buffer after the call,
\* the handle returned, and whether the call returned.
push(sb, element) ==
    IF sb.free_cells # {}
    THEN {IF offset < Len(sb.buffer)
          THEN [sb     |-> [sb EXCEPT !.free_cells = @ \ {offset},
                                      !.buffer[offset + 1] = element],
                handle |-> Handle(offset, sb.generations[offset + 1]),
                ok     |-> TRUE]
          ELSE [sb     |-> [sb EXCEPT !.free_cells = @ \ {offset}],
                handle |-> DefaultHandle,
                ok     |-> FALSE]
          : offset \in sb.free_cells}
    ELSE {[sb     |-> [sb EXCEPT !.buffer = Append(@, element),
                                 !.generations = Append(@, 1)],
           handle |-> Handle(Len(sb.buffer), 1),
           ok     |-> TRUE]}

\* ElementBuffer::remove: the outcomes of the call.  The offset is put in
\* free_cells first; generations[offset] += 1 panics past the end of the
\* vector, and at the largest generation it panics where overflow is
\* checked and wraps to 0 where it is not.
eb_remove(sb, handle) ==
    LET freed == [sb EXCEPT !.free_cells = @ \cup {handle.offset}]
    IN  IF handle.offset >= Len(sb.generations)
        THEN {[sb |-> freed, ok |-> FALSE]}
        ELSE IF sb.generations[handle.offset + 1] = U32Max
             THEN {[sb |-> freed, ok |-> FALSE],
                   [sb |-> [freed EXCEPT !.generations[handle.offset + 1] = 0],
                    ok |-> TRUE]}
             ELSE {[sb |-> [freed EXCEPT !.generations[handle.offset + 1] = @ + 1],
                    ok |-> TRUE]}

\* ElementBuffer::remove_offset: the body of remove, on an offset.
remove_offset(sb, offset) ==
    eb_remove(sb, Handle(offset, INVALID_ELEMENT_GENERATION))

\* The two iterators of ElementBuffer::build_rectify_plan: the offsets
\* buffer.len() - idx for idx in 1..=buffer.len() that free_cells does not
\* contain (the offset 0 of the sentinel among them), and the offsets
\* 1..=buffer.len() that it contains.
plan_active_cells(sb) ==
    LET n == Len(sb.buffer)
        Kept(o) == o \notin sb.free_cells
    IN  SelectSeq([idx \in 1 .. n |-> n - idx], Kept)

plan_free_cells(sb) ==
    LET n == Len(sb.buffer)
        Kept(o) == o \in sb.free_cells
    IN  SelectSeq([idx \in 1 .. n |-> idx], Kept)

\* zip(...).take_while(|(f, a)| f < a): the pairs of two sequences, up to
\* the end of the shorter and to the first pair that fails the test.
RECURSIVE ZipTakeWhile(_, _)
ZipTakeWhile(fs, as) ==
    IF fs = << >> \/ as = << >> THEN << >>
    ELSE IF Head(fs) < Head(as)
         THEN << << Head(fs), Head(as) >> >> \o ZipTakeWhile(Tail(fs), Tail(as))
         ELSE << >>

\* zip(...) alone.
RECURSIVE Zip(_, _)
Zip(fs, as) ==
    IF fs = << >> \/ as = << >> THEN << >>
    ELSE << << Head(fs), Head(as) >> >> \o Zip(Tail(fs), Tail(as))

\* build_rectify_plan without its take_while.
build_rectify_plan_NoTakeWhile(sb) ==
    Zip(plan_free_cells(sb), plan_active_cells(sb))

\* build_rectify_plan that stops after its first pair.
build_rectify_plan_FirstPair(sb) ==
    LET pairs == ZipTakeWhile(plan_free_cells(sb), plan_active_cells(sb))
    IN  IF pairs = << >> THEN << >> ELSE << Head(pairs) >>

\* ElementBuffer::build_rectify_plan: the pairs (free offset, active
\* offset) in the order collected.
build_rectify_plan(sb) ==
    ZipTakeWhile(plan_free_cells(sb), plan_active_cells(sb))

\* Applying a plan, which no code of the repository does (compact drops
\* it): for each pair (f, a) in order, the element at a is moved into the
\* cell at f, f becomes active and a free.
RECURSIVE apply_rectify_plan(_, _)
apply_rectify_plan(sb, pairs) ==
    IF pairs = << >> THEN sb
    ELSE LET f == Head(pairs)[1]
             a == Head(pairs)[2]
         IN  apply_rectify_plan(
                 [sb EXCEPT !.buffer[f + 1] = sb.buffer[a + 1],
                            !.free_cells = (@ \ {f}) \cup {a}],
                 Tail(pairs))

\* --------------------------------------------------------------- the system

VARIABLES
    kernel,     \* the Kernel
    op,         \* the last operation: "new", "edit" or "defrag"
    pre,        \* after a defrag: the Kernel as it was before the call
    origin,     \* after a defrag: per buffer, the offset each cell had before
    aborted,    \* TRUE once an operation panicked
    workload,   \* the workload this behaviour runs
    impl,       \* the arena a behaviour of SpecArena drives
    arena,      \* that arena: an ElementBuffer of one of the two crates
    issued,     \* the handles push returned, with the element pushed, in
                \* push order, less those whose element was removed
    old,        \* after a clear: the handles that resolved before it
    history,    \* what the arena went through: "pushes", "removes" (pushes
                \* and removes of handles push returned that resolved),
                \* "aliases" (also removes of other handles that resolved),
                \* "cleared", "wild"
    halted,     \* TRUE once a call on the arena panicked
    plan,       \* the rectify plan a behaviour of SpecPlan built last: its
                \* pairs, the arena it was built from, and whether it is
                \* "built" or "applied" ("none": no plan of this arena)
    tag,        \* the tag counter of the Mesh a behaviour of SpecMesh drives
                \* (its Kernel is kernel)
    built,      \* the loop or fan the last construction calls built
    walk        \* the iterators a behaviour of SpecWalk steps: each with the
                \* items it returned so far, whether it returned None, and
                \* the items a for loop over it alone would have returned

kvars == << kernel, op, pre, origin, aborted, workload >>

avars == << impl, arena, issued, old, history, halted, plan >>

mvars == << tag, built >>

wvars == << walk >>

vars == << kvars, avars, mvars, wvars >>

\* No loop and no fan built.
NoBuilt ==
    [edges |-> << >>, origins |-> << >>, pending |-> DefaultIndex, closed |-> FALSE,
     fan |-> "none", faces |-> 0, points |-> << >>,
     root |-> DefaultIndex, v0 |-> DefaultIndex, e2 |-> DefaultIndex,
     spoke |-> DefaultIndex]

\* No iterator made.
NoWalk ==
    [state |-> "none", kinds |-> << >>, its |-> << >>, items |-> << >>,
     done |-> << >>, alone |-> << >>, edges |-> 0]

\* The Mesh of a behaviour that drives the Kernel or an arena only:
\* Mesh::new() sets the counter to 1.
NoMesh ==
    /\ tag = 1
    /\ built = NoBuilt
    /\ walk = NoWalk

\* No plan built.
NoPlan == [state |-> "none", pairs |-> << >>, before |-> NewElementBuffer]

\* The arena of a behaviour that drives the Kernel only.
NoArena ==
    /\ impl = "kernel"
    /\ arena = NewBuffer(DefaultPointData)
    /\ issued = << >>
    /\ old = {}
    /\ history = "pushes"
    /\ halted = FALSE
    /\ plan = NoPlan

\* The workloads: the cells each may use per buffer and its operations.
Caps ==
    [twins  |-> [edges |-> MaxTwinEdges, faces |-> 0, verts |-> 0, points |-> 0],
     loops  |-> [edges |-> MaxLoopEdges, faces |-> MaxLoopFaces, verts |-> 0, points |-> 0],
     faces  |-> [edges |-> MaxFaceEdges, faces |-> MaxFaces, verts |-> 0, points |-> 0],
     points |-> [edges |-> 0, faces |-> 0, verts |-> MaxPointVerts, points |-> MaxPoints],
     shared |-> [edges |-> 0, faces |-> 0, verts |-> MaxSharedVerts, points |-> MaxSharedPoints],
     verts  |-> [edges |-> MaxVertEdges, faces |-> 0, verts |-> MaxVerts, points |-> 0]]

Ops ==
    [twins  |-> {"AddEdge", "BuildFullEdge", "BuildHalfEdge", "RemoveEdge"},
     loops  |-> {"AddEdge", "ConnectEdges", "RemoveEdge",
                 "AddFace", "AssignFaceToLoop", "RemoveFace"},
     faces  |-> {"AddEdge", "ConnectEdges",
                 "AddFace", "AssignFaceToLoop", "RemoveFace"},
     points |-> {"AddPoint", "RemovePoint", "AddVertex", "RemoveVertex"},
     shared |-> {"AddPoint", "RemovePoint", "AddVertex", "RemoveVertex"},
     verts  |-> {"AddVertex", "RemoveVertex", "AddEdge", "BuildFullEdge",
                 "BuildHalfEdge", "RemoveEdge", "AssocVertEdge"}]

Workloads == DOMAIN Ops

\* The workload runs this operation now. The faces workload builds its
\* edges before its first face and stops editing at its first defrag.
Runs(name) ==
    /\ name \in Ops[workload]
    /\ workload = "faces" =>
           /\ op # "defrag"
           /\ name \in {"AddEdge", "ConnectEdges"} => Len(kernel.face_buffer.buffer) = 1

\* The faces workload connects an edge after at most one edge and before at
\* most one edge.
Unlinked(prev, next) ==
    workload = "faces" =>
        /\ Cell(kernel.edge_buffer, prev.offset).data.next_index = DefaultIndex
        /\ Cell(kernel.edge_buffer, next.offset).data.prev_index = DefaultIndex

\* Whether n more elements may be added to a buffer that is to hold at most
\* max cells (sentinel excluded): add reuses the free cells first and
\* grows the buffer by one for each element after them.
Room(eb, max, n) ==
    LET grown == IF n > Len(eb.free_cells) THEN n - Len(eb.free_cells) ELSE 0
    IN  (Len(eb.buffer) - 1) + grown <= max

\* The indices a caller holds: the default index and the index of every
\* active cell.
Held(eb) ==
    {DefaultIndex} \cup
    {Index(o, Cell(eb, o).generation) : o \in {p \in Offsets1(eb) : is_active(Cell(eb, p))}}

\* The indices of the active cells: what the construction helpers are called
\* with.
Live(eb) == Held(eb) \ {DefaultIndex}

\* The indices remove_element is called with: any offset up to one past the
\* end of the buffer, any generation.
Removable(eb) ==
    {Index(o, g) : o \in 0 .. Len(eb.buffer), g \in 0 .. MaxGen}

\* A remove of this index stays within the generation bound.
GenRoom(eb, index) ==
    get(eb, index) # None => Cell(eb, index.offset).generation < MaxGen

\* The cells of a buffer with the id of each set to its offset (from
\* offset o on) / to 0.
RECURSIVE LabelCells(_, _)
LabelCells(cells, o) ==
    IF cells = << >> THEN << >>
    ELSE << [Head(cells) EXCEPT !.id = o] >> \o LabelCells(Tail(cells), o + 1)

RECURSIVE UnlabelCells(_)
UnlabelCells(cells) ==
    IF cells = << >> THEN << >>
    ELSE << [Head(cells) EXCEPT !.id = 0] >> \o UnlabelCells(Tail(cells))

RECURSIVE CellIds(_)
CellIds(cells) ==
    IF cells = << >> THEN << >>
    ELSE << Head(cells).id >> \o CellIds(Tail(cells))

Labelled(k) ==
    [edge_buffer   |-> [k.edge_buffer EXCEPT !.buffer = LabelCells(@, 0)],
     face_buffer   |-> [k.face_buffer EXCEPT !.buffer = LabelCells(@, 0)],
     vertex_buffer |-> [k.vertex_buffer EXCEPT !.buffer = LabelCells(@, 0)],
     point_buffer  |-> [k.point_buffer EXCEPT !.buffer = LabelCells(@, 0)]]

Unlabelled(k) ==
    [edge_buffer   |-> [k.edge_buffer EXCEPT !.buffer = UnlabelCells(@)],
     face_buffer   |-> [k.face_buffer EXCEPT !.buffer = UnlabelCells(@)],
     vertex_buffer |-> [k.vertex_buffer EXCEPT !.buffer = UnlabelCells(@)],
     point_buffer  |-> [k.point_buffer EXCEPT !.buffer = UnlabelCells(@)]]

\* Per buffer, the ids of its cells in buffer order.
Ids(k) ==
    [edge_buffer   |-> CellIds(k.edge_buffer.buffer),
     face_buffer   |-> CellIds(k.face_buffer.buffer),
     vertex_buffer |-> CellIds(k.vertex_buffer.buffer),
     point_buffer  |-> CellIds(k.point_buffer.buffer)]

NoOrigin ==
    [edge_buffer |-> << >>, face_buffer |-> << >>,
     vertex_buffer |-> << >>, point_buffer |-> << >>]

Init ==
    /\ kernel = NewKernel
    /\ op = "new"
    /\ pre = NewKernel
    /\ origin = NoOrigin
    /\ aborted = FALSE
    /\ workload \in Workloads
    /\ NoArena
    /\ NoMesh

\* An operation other than defrag that leaves kernel k.
Edit(k) ==
    /\ ~aborted
    /\ kernel' = k
    /\ op' = "edit"
    /\ pre' = NewKernel
    /\ origin' = NoOrigin
    /\ aborted' = FALSE
    /\ UNCHANGED << workload, avars, mvars, wvars >>

\* AddElement<Point> for Kernel.
AddPoint ==
    /\ Runs("AddPoint")
    /\ Room(kernel.point_buffer, Caps[workload].points, 1)
    /\ \E position \in Positions :
           Edit([kernel EXCEPT !.point_buffer =
                    add(@, MeshElement([position |-> position])).eb])

\* AddElement<Vertex> for Kernel, with Vertex::new(edge_index, point_index).
AddVertex ==
    /\ Runs("AddVertex")
    /\ Room(kernel.vertex_buffer, Caps[workload].verts, 1)
    /\ \E edge_index \in Held(kernel.edge_buffer), point_index \in Held(kernel.point_buffer) :
           Edit([kernel EXCEPT !.vertex_buffer =
                    add(@, MeshElement([edge_index |-> edge_index,
                                        point_index |-> point_index])).eb])

\* AddElement<Edge> for Kernel, with Edge::default().
AddEdge ==
    /\ Runs("AddEdge")
    /\ Room(kernel.edge_buffer, Caps[workload].edges, 1)
    /\ Edit([kernel EXCEPT !.edge_buffer = add(@, MeshElement(DefaultEdgeData)).eb])

\* AddElement<Face> for Kernel, with Face::new(edge_index).
AddFace ==
    /\ Runs("AddFace")
    /\ Room(kernel.face_buffer, Caps[workload].faces, 1)
    /\ \E edge_index \in Held(kernel.edge_buffer) :
           Edit([kernel EXCEPT !.face_buffer =
                    add(@, MeshElement([edge_index |-> edge_index])).eb])

\* remove_element removing, with an edge, the vertex the edge names.
remove_element_Cascade(k, b, index) ==
    IF b = "edge_buffer" /\ get(k.edge_buffer, index) # None
    THEN [k EXCEPT !.edge_buffer = remove(@, index),
                   !.vertex_buffer =
                       remove(@, Cell(k.edge_buffer, index.offset).data.vertex_index)]
    ELSE [k EXCEPT ![b] = remove(@, index)]

\* RemoveElement<Point|Vertex|Edge|Face>::remove_element for Kernel: remove
\* on the buffer b of the type of the index.
remove_element(k, b, index) ==
    [k EXCEPT ![b] = remove(@, index)]

\* RemoveElement<Point|Vertex|Edge|Face> for Kernel.
RemovePoint ==
    /\ Runs("RemovePoint")
    /\ \E index \in Removable(kernel.point_buffer) :
        /\ GenRoom(kernel.point_buffer, index)
        /\ Edit(remove_element(kernel, "point_buffer", index))

RemoveVertex ==
    /\ Runs("RemoveVertex")
    /\ \E index \in Removable(kernel.vertex_buffer) :
        /\ GenRoom(kernel.vertex_buffer, index)
        /\ Edit(remove_element(kernel, "vertex_buffer", index))

RemoveEdge ==
    /\ Runs("RemoveEdge")
    /\ \E index \in Removable(kernel.edge_buffer) :
        /\ GenRoom(kernel.edge_buffer, index)
        /\ Edit(remove_element(kernel, "edge_buffer", index))

RemoveFace ==
    /\ Runs("RemoveFace")
    /\ \E index \in Removable(kernel.face_buffer) :
        /\ GenRoom(kernel.face_buffer, index)
        /\ Edit(remove_element(kernel, "face_buffer", index))

BuildFullEdge ==
    /\ Runs("BuildFullEdge")
    /\ Room(kernel.edge_buffer, Caps[workload].edges, 2)
    /\ \E v0 \in Held(kernel.vertex_buffer), v1 \in Held(kernel.vertex_buffer) :
           Edit(build_full_edge(kernel, v0, v1).k)

BuildHalfEdge ==
    /\ Runs("BuildHalfEdge")
    /\ Room(kernel.edge_buffer, Caps[workload].edges, 1)
    /\ \E twin \in Held(kernel.edge_buffer), vert \in Held(kernel.vertex_buffer) :
           Edit(build_half_edge(kernel, twin, vert).k)

AssocVertEdge ==
    /\ Runs("AssocVertEdge")
    /\ \E vert \in Live(kernel.vertex_buffer), edge \in Live(kernel.edge_buffer) :
        Edit(assoc_vert_edge(kernel, vert, edge))

ConnectEdges ==
    /\ Runs("ConnectEdges")
    /\ \E prev \in Live(kernel.edge_buffer), next \in Live(kernel.edge_buffer) :
        /\ Unlinked(prev, next)
        /\ Edit(connect_edges(kernel, prev, next))

AssignFaceToLoop ==
    /\ Runs("AssignFaceToLoop")
    /\ \E root \in Live(kernel.edge_buffer), face \in Live(kernel.face_buffer) :
        Edit(assign_face_to_loop(kernel, root, face))

\* Kernel::defrag; a panic leaves the kernel as it was when it unwound.
Defrag ==
    /\ ~aborted
    /\ \E labelled \in {Labelled(kernel)} :
       \E r \in {defrag(labelled)} :
           /\ kernel' = Unlabelled(r.k)
           /\ op' = "defrag"
           /\ pre' = kernel
           /\ origin' = Ids(r.k)
           /\ aborted' = ~r.ok
           /\ UNCHANGED << workload, avars, mvars, wvars >>

Next ==
    \/ AddPoint
    \/ AddVertex
    \/ AddEdge
    \/ AddFace
    \/ RemovePoint
    \/ RemoveVertex
    \/ RemoveEdge
    \/ RemoveFace
    \/ BuildFullEdge
    \/ BuildHalfEdge
    \/ AssocVertEdge
    \/ ConnectEdges
    \/ AssignFaceToLoop
    \/ Defrag

Spec == Init /\ [][Next]_vars

\* ---------------------------------------------------------------- the arenas

\* SpecArena drives one arena alone with push, remove and clear: the
\* ElementBuffer of the kernel holding Points (through add_element and
\* remove_element) or the ElementBuffer of hedge-element-buffer holding
\* TestElements.
Impls == {"kernel", "standalone"}

\* The elements pushed.
Elements == IF impl = "kernel" THEN Positions ELSE TestElements

\* The handles a caller may pass: any offset up to one past the end of the
\* buffer, any generation.
ArenaHandles ==
    {Handle(o, g) : o \in 0 .. Len(arena.buffer), g \in 0 .. U32Max}

\* What get returns for a handle: the offset of the cell, None or Panic.
Resolve(a, handle) ==
    IF impl = "kernel" THEN get(a, handle) ELSE eb_get(a, handle)

\* The element in the cell of an offset.
ElementAt(a, offset) ==
    IF impl = "kernel" THEN Cell(a, offset).data.position ELSE a.buffer[offset + 1]

\* The generation of the cell of an offset.
GenerationAt(a, offset) ==
    IF impl = "kernel" THEN Cell(a, offset).generation ELSE a.generations[offset + 1]

\* The outcomes of push / remove on arena a.
PushOutcomes(a, element) ==
    IF impl = "kernel"
    THEN LET r == add(a, MeshElement([position |-> element]))
         IN  {[sb |-> r.eb, handle |-> r.index, ok |-> TRUE]}
    ELSE push(a, element)

RemoveOutcomes(a, handle) ==
    IF impl = "kernel"
    THEN {[sb |-> remove(a, handle), ok |-> TRUE]}
    ELSE eb_remove(a, handle)

\* Whether one more element may be pushed.
ArenaRoom ==
    IF impl = "kernel"
    THEN Room(arena, MaxArenaCells, 1)
    ELSE arena.free_cells # {} \/ Len(arena.buffer) - 1 < MaxArenaCells

\* The entries of a sequence of issued handles whose handle does not
\* resolve to the cell of the offset.
RECURSIVE Unissue(_, _, _)
Unissue(entries, a, offset) ==
    IF entries = << >> THEN << >>
    ELSE IF Resolve(a, Head(entries).handle) = offset
         THEN Unissue(Tail(entries), a, offset)
         ELSE << Head(entries) >> \o Unissue(Tail(entries), a, offset)

IssuedHandles == {issued[i].handle : i \in 1 .. Len(issued)}

\* The histories in which every remove was given a handle that resolved.
Tame == {"pushes", "removes", "aliases"}

InitArena ==
    /\ kernel = NewKernel
    /\ op = "new"
    /\ pre = NewKernel
    /\ origin = NoOrigin
    /\ aborted = FALSE
    /\ workload = "points"
    /\ impl \in Impls
    /\ arena = IF impl = "kernel" THEN NewBuffer(DefaultPointData) ELSE NewElementBuffer
    /\ issued = << >>
    /\ old = {}
    /\ history = "pushes"
    /\ halted = FALSE
    /\ plan = NoPlan
    /\ NoMesh

\* add_element(Point) / ElementBuffer::push.
ArenaPush ==
    /\ ~halted
    /\ ArenaRoom
    /\ \E element \in Elements : \E r \in PushOutcomes(arena, element) :
          /\ arena' = r.sb
          /\ halted' = ~r.ok
          /\ issued' = IF r.ok /\ history \in Tame
                       THEN Append(issued, [handle |-> r.handle, element |-> element])
                       ELSE << >>
          /\ UNCHANGED << impl, old, history, plan, kvars, mvars, wvars >>

\* remove_element(Point) / ElementBuffer::remove.  A cell whose generation
\* reached MaxGen is not removed again, but for the cell of offset 1: while
\* every remove was given a handle that resolved, it is removed whatever
\* its generation, so that a generation reaches the end of its range.
ArenaRemove ==
    /\ ~halted
    /\ history # "cleared"
    /\ \E handle \in ArenaHandles : \E r \in RemoveOutcomes(arena, handle) :
          LET offset == Resolve(arena, handle)
              tame   == offset >= 0 /\ history \in Tame
          IN  /\ handle.offset < Len(arena.buffer) =>
                     \/ GenerationAt(arena, handle.offset) < MaxGen
                     \/ handle.offset = 1 /\ tame
              /\ arena' = r.sb
              /\ halted' = ~r.ok
              /\ history' = IF ~tame THEN "wild"
                            ELSE IF handle \in IssuedHandles /\ history # "aliases"
                                 THEN "removes"
                                 ELSE "aliases"
              /\ issued' = IF tame /\ r.ok THEN Unissue(issued, arena, offset) ELSE << >>
              /\ UNCHANGED << impl, old, plan, kvars, mvars, wvars >>

\* ElementBuffer::clear, called once, while no generation exceeds MaxGen;
\* after it elements are pushed only.
ArenaClear ==
    /\ ~halted
    /\ impl = "standalone"
    /\ history \in Tame
    /\ \A o \in 0 .. Len(arena.buffer) - 1 : GenerationAt(arena, o) <= MaxGen
    /\ arena' = clear(arena)
    /\ old' = {h \in IssuedHandles : Resolve(arena, h) >= 0}
    /\ issued' = << >>
    /\ history' = "cleared"
    /\ UNCHANGED << impl, halted, plan, kvars, mvars, wvars >>

NextArena ==
    \/ ArenaPush
    \/ ArenaRemove
    \/ ArenaClear

SpecArena == InitArena /\ [][NextArena]_vars

\* ------------------------------------------------------- the rectify plans

\* SpecPlan drives the ElementBuffer of hedge-element-buffer as its tests
\* of build_rectify_plan do: pushes, removes by offset (the sentinel's
\* among them), clear, and build_rectify_plan on the buffer reached.  It
\* then applies the plan built.
InitPlan ==
    /\ kernel = NewKernel
    /\ op = "new"
    /\ pre = NewKernel
    /\ origin = NoOrigin
    /\ aborted = FALSE
    /\ workload = "points"
    /\ impl = "standalone"
    /\ arena = NewElementBuffer
    /\ issued = << >>
    /\ old = {}
    /\ history = "pushes"
    /\ halted = FALSE
    /\ plan = NoPlan
    /\ NoMesh

\* The buffer is edited until a plan is applied.
PlanEdits ==
    /\ ~halted
    /\ plan.state # "applied"

\* ElementBuffer::push.
PlanPush ==
    /\ PlanEdits
    /\ arena.free_cells # {} \/ Len(arena.buffer) - 1 < MaxPlanCells
    /\ \E element \in TestElements : \E r \in push(arena, element) :
          /\ arena' = r.sb
          /\ halted' = ~r.ok
          /\ plan' = NoPlan
          /\ UNCHANGED << impl, issued, old, history, kvars, mvars, wvars >>

\* ElementBuffer::remove_offset (remove does the same with the offset of
\* its handle), on a cell whose generation is below MaxGen.
PlanRemoveOffset ==
    /\ PlanEdits
    /\ \E offset \in 0 .. Len(arena.buffer) - 1 :
          /\ arena.generations[offset + 1] < MaxGen
          /\ \E r \in remove_offset(arena, offset) :
                /\ arena' = r.sb
                /\ halted' = ~r.ok
                /\ plan' = NoPlan
                /\ UNCHANGED << impl, issued, old, history, kvars, mvars, wvars >>

\* ElementBuffer::clear.
PlanClear ==
    /\ PlanEdits
    /\ Len(arena.buffer) > 1
    /\ arena' = clear(arena)
    /\ plan' = NoPlan
    /\ UNCHANGED << impl, issued, old, history, halted, kvars, mvars, wvars >>

\* ElementBuffer::build_rectify_plan (through compact, which drops it).
PlanBuild ==
    /\ PlanEdits
    /\ plan.state = "none"
    /\ plan' = [state |-> "built", pairs |-> build_rectify_plan(arena),
                before |-> arena]
    /\ UNCHANGED << impl, arena, issued, old, history, halted, kvars, mvars, wvars >>

\* The plan built is applied to the buffer it was built from.
PlanApply ==
    /\ ~halted
    /\ plan.state = "built"
    /\ arena' = apply_rectify_plan(arena, plan.pairs)
    /\ plan' = [plan EXCEPT !.state = "applied"]
    /\ UNCHANGED << impl, issued, old, history, halted, kvars, mvars, wvars >>

NextPlan ==
    \/ PlanPush
    \/ PlanRemoveOffset
    \/ PlanClear
    \/ PlanBuild
    \/ PlanApply

SpecPlan == InitPlan /\ [][NextPlan]_vars

\* --------------------------------------------------------------------- Mesh

\* ElementBuffer::active_cells of the kernel: the offsets of the cells of
\* the buffer that are active, from offset o on, in buffer order.
RECURSIVE ActiveCellsFrom(_, _)
ActiveCellsFrom(eb, o) ==
    IF o >= Len(eb.buffer) THEN << >>
    ELSE IF is_active(Cell(eb, o))
         THEN << o >> \o ActiveCellsFrom(eb, o + 1)
         ELSE ActiveCellsFrom(eb, o + 1)

active_cells(eb) ==
    ActiveCellsFrom(eb, 0)

\* The indices of the function sets an iterator of the Mesh yields over a
\* buffer: Index::new(offset) of each active cell.
RECURSIVE IndexNewAll(_)
IndexNewAll(offsets) ==
    IF offsets = << >> THEN << >>
    ELSE << Index(Head(offsets), 0) >> \o IndexNewAll(Tail(offsets))

\* Mesh::faces, Mesh::edges, Mesh::vertices.
faces(k) ==
    IndexNewAll(active_cells(k.face_buffer))

edges(k) ==
    IndexNewAll(active_cells(k.edge_buffer))

vertices(k) ==
    IndexNewAll(active_cells(k.vertex_buffer))

\* Mesh::face_count, Mesh::edge_count, Mesh::vertex_count.
face_count(k) == len(k.face_buffer) - 1

edge_count(k) == len(k.edge_buffer) - 1

vertex_count(k) == len(k.vertex_buffer) - 1

\* Mesh::next_tag: fetch_add(1) on an AtomicU32; the tag returned and the
\* counter after the call.
next_tag(counter) == [tag |-> counter, counter |-> (counter + 1) % (2 ^ TagBits)]

\* ------------------------------------------------------------- iterators

\* MeshElement::set_tag on the edge at an offset.
set_tag(k, offset, t) ==
    [k EXCEPT !.edge_buffer.buffer[offset + 1].tag = t]

\* FaceEdges::new.
FaceEdges_new(k, t, face) ==
    [tag |-> t, root_edge |-> FaceFn_edge(k, face), last_edge |-> << >>]

\* FaceEdges::next that does not look at the tag of the edge it reaches.
FaceEdges_next_NoTagCheck(k, it) ==
    LET next_edge == IF it.last_edge = << >> THEN it.root_edge
                     ELSE EdgeFn_next(k, it.last_edge[1])
        fresh == get(k.edge_buffer, next_edge) # None
        item == IF it.last_edge = << >> THEN << it.root_edge >>
                ELSE IF fresh /\ next_edge # it.root_edge THEN << next_edge >>
                ELSE << >>
    IN  [k    |-> IF it.last_edge # << >> /\ fresh
                  THEN set_tag(k, next_edge.offset, it.tag) ELSE k,
         it   |-> [it EXCEPT !.last_edge = item],
         item |-> item]

\* FaceEdges::next: the mesh and the iterator after the call and the item
\* returned (<< index >> for Some(edge of that index), << >> for None).
FaceEdges_next(k, it) ==
    LET next_edge == IF it.last_edge = << >> THEN it.root_edge
                     ELSE EdgeFn_next(k, it.last_edge[1])
        fresh == /\ get(k.edge_buffer, next_edge) # None
                 /\ Cell(k.edge_buffer, next_edge.offset).tag # it.tag
        item == IF it.last_edge = << >> THEN << it.root_edge >>
                ELSE IF fresh /\ next_edge # it.root_edge THEN << next_edge >>
                ELSE << >>
    IN  [k    |-> IF it.last_edge # << >> /\ fresh
                  THEN set_tag(k, next_edge.offset, it.tag) ELSE k,
         it   |-> [it EXCEPT !.last_edge = item],
         item |-> item]

\* VertexCirculator::new.
VertexCirculator_new(k, t, vert) ==
    [tag |-> t, vert |-> vert, last_edge |-> << >>,
     central_point |-> IF get(k.vertex_buffer, vert) # None
                       THEN Cell(k.vertex_buffer, vert.offset).data.point_index
                       ELSE DefaultIndex]

\* VertexCirculator::next: the mesh and the iterator after the call and the
\* item returned.
VertexCirculator_next(k, it) ==
    LET next_edge == IF it.last_edge = << >> THEN VertexFn_edge(k, it.vert)
                     ELSE EdgeFn_twin(k, EdgeFn_prev(k, it.last_edge[1]))
        found == get(k.edge_buffer, next_edge) # None
        fresh == found /\ Cell(k.edge_buffer, next_edge.offset).tag # it.tag
        vertex == EdgeFn_vertex(k, next_edge)
        item == IF it.last_edge = << >>
                THEN (IF found THEN << next_edge >> ELSE << >>)
                ELSE IF /\ fresh
                        /\ ~is_boundary(k, next_edge)
                        /\ get(k.vertex_buffer, vertex) # None
                        /\ Cell(k.vertex_buffer, vertex.offset).data.point_index
                               = it.central_point
                     THEN << next_edge >>
                     ELSE << >>
    IN  [k    |-> IF (it.last_edge = << >> /\ found) \/ (it.last_edge # << >> /\ fresh)
                  THEN set_tag(k, next_edge.offset, it.tag) ELSE k,
         it   |-> [it EXCEPT !.last_edge = item],
         item |-> item]

\* A for loop over an iterator: next is called until it returns None; the
\* mesh after the loop and the items in the order returned.  kind names the
\* iterator ("FaceEdges" or "VertexCirculator"); fuel bounds the calls.
RECURSIVE Drain(_, _, _, _)
Drain(kind, k, it, fuel) ==
    With(IF kind = "FaceEdges" THEN FaceEdges_next(k, it)
         ELSE VertexCirculator_next(k, it), LAMBDA r :
         IF r.item = << >> \/ fuel = 0
         THEN [k |-> r.k, items |-> << >>]
         ELSE With(Drain(kind, r.k, r.it, fuel - 1), LAMBDA rest :
                   [k |-> rest.k, items |-> r.item \o rest.items]))

\* The calls a for loop over an iterator of mesh k makes at most: a call
\* that returns an item other than the first stamps an edge that did not
\* carry the tag.
Fuel(k) == Len(k.edge_buffer.buffer) + 1

\* for edge in mesh.face(face).edges(), with the tag drawn for it.
face_edges(k, t, face) ==
    Drain("FaceEdges", k, FaceEdges_new(k, t, face), Fuel(k))

\* The items of a FaceVertices iterator: FaceVertices::next maps each edge
\* of the inner FaceEdges to its vertex.
RECURSIVE MapVertex(_, _)
MapVertex(k, items) ==
    IF items = << >> THEN << >>
    ELSE << EdgeFn_vertex(k, Head(items)) >> \o MapVertex(k, Tail(items))

\* for vert in mesh.face(face).vertices().
face_vertices(k, t, face) ==
    With(face_edges(k, t, face), LAMBDA r :
         [k |-> r.k, items |-> MapVertex(k, r.items)])

\* for edge in mesh.vertex(vert).edges().
vertex_edges(k, t, vert) ==
    Drain("VertexCirculator", k, VertexCirculator_new(k, t, vert), Fuel(k))

\* ------------------------------------------------------------ the meshes

\* Mesh::add_element with Vertex::at_point(point) / with Face::default():
\* the kernel after the call and the index returned.
add_vertex_at(k, point) ==
    LET a == add(k.vertex_buffer,
                 MeshElement([edge_index |-> DefaultIndex, point_index |-> point]))
    IN  [k |-> [k EXCEPT !.vertex_buffer = a.eb], index |-> a.index]

add_default_face(k) ==
    LET a == add(k.face_buffer, MeshElement(DefaultFaceData))
    IN  [k |-> [k EXCEPT !.face_buffer = a.eb], index |-> a.index]

\* tests::build_fan, first face: three vertices, a triangle built with
\* build_full_edge, build_full_edge_from and close_edge_loop, its face.
fan_first(k, p0, p1, center) ==
    With(add_vertex_at(k, p0), LAMBDA a0 :
    With(add_vertex_at(a0.k, p1), LAMBDA a1 :
    With(add_vertex_at(a1.k, center), LAMBDA a2 :
    With(build_full_edge(a2.k, a0.index, a1.index), LAMBDA b0 :
    With(build_full_edge_from(b0.k, b0.index, a2.index), LAMBDA b1 :
    With(close_edge_loop(b1.k, b1.index, b0.index), LAMBDA b2 :
    With(add_default_face(b2.k), LAMBDA f0 :
         [k |-> assign_face_to_loop(f0.k, b0.index, f0.index),
          v0 |-> a0.index, v2 |-> a2.index, e1 |-> b1.index,
          e2 |-> b2.index])))))))

\* tests::build_fan, a face between the first and the last: three vertices
\* (the second unused), a triangle on the twin of the edge named spoke; e5
\* is the spoke of the face after it.
fan_middle(k, spoke, p1, p2, center) ==
    With(add_vertex_at(k, p1), LAMBDA a3 :
    With(add_vertex_at(a3.k, p2), LAMBDA a4 :
    With(add_vertex_at(a4.k, center), LAMBDA a5 :
    With(EdgeFn_twin(a5.k, spoke), LAMBDA e3 :
    With(assoc_vert_edge(a5.k, a5.index, e3), LAMBDA k1 :
    With(build_full_edge_from(k1, e3, a3.index), LAMBDA b4 :
    With(close_edge_loop(b4.k, b4.index, e3), LAMBDA b5 :
    With(add_default_face(b5.k), LAMBDA f1 :
         [k |-> assign_face_to_loop(f1.k, e3, f1.index),
          e5 |-> b5.index]))))))))

\* tests::build_fan, last face: three vertices (two unused), a triangle
\* between the twin of the edge named spoke and the twin of e2.
fan_last(k, spoke, e2, v0, p3, p0, center) ==
    With(add_vertex_at(k, p3), LAMBDA a9 :
    With(add_vertex_at(a9.k, p0), LAMBDA a10 :
    With(add_vertex_at(a10.k, center), LAMBDA a11 :
    With(EdgeFn_twin(a11.k, spoke), LAMBDA e9 :
    With(assoc_vert_edge(a11.k, a11.index, e9), LAMBDA k1 :
    With(EdgeFn_twin(k1, e2), LAMBDA e11 :
    With(assoc_vert_edge(k1, v0, e11), LAMBDA k2 :
    With(close_edge_loop(k2, e9, e11), LAMBDA b10 :
    With(add_default_face(b10.k), LAMBDA f3 :
         assign_face_to_loop(f3.k, e9, f3.index))))))))))

\* The workloads of the mesh harness.
MeshWorkloads == {"helpers", "loop", "fan"}

\* The edge cells a workload may use.
MeshEdges == IF workload = "loop" THEN MaxBuiltEdges ELSE MaxMeshEdges

\* The loop workload adds its vertices, builds one loop and then adds,
\* assigns and removes faces.
Faced == workload = "loop" => built.closed

\* It continues and closes the loop it started.
Continues(prev) ==
    /\ built.edges # << >>
    /\ ~built.closed
    /\ prev = built.edges[Len(built.edges)]

Closes(prev, next) ==
    /\ Continues(prev)
    /\ next = built.edges[1]

InitMesh ==
    /\ kernel = NewKernel
    /\ op = "new"
    /\ pre = NewKernel
    /\ origin = NoOrigin
    /\ aborted = FALSE
    /\ workload \in MeshWorkloads
    /\ NoArena
    /\ NoMesh

\* The harness builds a mesh, then traverses it: in the fan workload from
\* the vertex build_fan returned (and over the edges of no face, which
\* draws a tag), in the others over the edges of a face (the helpers
\* workload: and over its vertices).
Traversals == {"face_edges", "face_vertices", "vertex_edges"}

\* The indices a caller passes for an edge: those add_element and the
\* helpers returned and those Mesh::edges() yields.
Names(k) == Live(k.edge_buffer) \cup {edges(k)[i] : i \in DOMAIN edges(k)}

\* An operation named name that builds: it leaves kernel k and the record
\* b of what was built.
Build(name, k, b) ==
    /\ op \notin Traversals
    /\ walk.state = "none"
    /\ kernel' = k
    /\ op' = name
    /\ built' = b
    /\ UNCHANGED << pre, origin, aborted, workload, avars, tag, wvars >>

\* Mesh::add_element(Point) and Mesh::remove_element(PointIndex).
MeshAddPoint ==
    /\ workload = "fan"
    /\ Len(kernel.edge_buffer.buffer) = 1
    /\ Room(kernel.point_buffer, MaxFanPoints, 1)
    /\ Build("add_element",
             [kernel EXCEPT !.point_buffer = add(@, MeshElement(DefaultPointData)).eb],
             built)

MeshRemovePoint ==
    /\ workload = "fan"
    /\ Len(kernel.edge_buffer.buffer) = 1
    /\ \E index \in Live(kernel.point_buffer) :
        /\ GenRoom(kernel.point_buffer, index)
        /\ Build("remove_element", remove_element(kernel, "point_buffer", index), built)

\* Mesh::add_element(Vertex::at_point(PointIndex::default())).
MeshAddVertex ==
    /\ workload = "loop"
    /\ Len(kernel.edge_buffer.buffer) = 1
    /\ Room(kernel.vertex_buffer, MaxMeshVerts, 1)
    /\ Build("add_element", add_vertex_at(kernel, DefaultIndex).k, built)

\* Mesh::add_element(Face::default()) and Mesh::remove_element(FaceIndex).
MeshAddFace ==
    /\ workload \in {"helpers", "loop"}
    /\ Faced
    /\ Room(kernel.face_buffer, MaxMeshFaces, 1)
    /\ Build("add_element", add_default_face(kernel).k, built)

MeshRemoveFace ==
    /\ Faced
    /\ \E index \in Live(kernel.face_buffer) :
        /\ GenRoom(kernel.face_buffer, index)
        /\ Build("remove_element", remove_element(kernel, "face_buffer", index),
                 IF built.fan # "none" THEN NoBuilt ELSE built)

\* utils::build_full_edge: it starts a loop; the loop workload builds one.
MeshBuildFullEdge ==
    /\ workload \in {"helpers", "loop"}
    /\ workload = "loop" => Len(kernel.edge_buffer.buffer) = 1
    /\ Room(kernel.edge_buffer, MeshEdges, 2)
    /\ \E v0 \in Held(kernel.vertex_buffer), v1 \in Held(kernel.vertex_buffer) :
           LET r == build_full_edge(kernel, v0, v1)
           IN  Build("build_full_edge", r.k,
                     [NoBuilt EXCEPT !.edges = << r.index >>, !.origins = << v0 >>,
                                     !.pending = v1])

\* utils::build_half_edge: the helpers workload adds an edge as the twin
\* of any edge; the loop it was building is no longer followed.
MeshBuildHalfEdge ==
    /\ workload = "helpers"
    /\ Room(kernel.edge_buffer, MeshEdges, 1)
    /\ \E twin \in Held(kernel.edge_buffer), vert \in Held(kernel.vertex_buffer) :
           Build("build_half_edge", build_half_edge(kernel, twin, vert).k, NoBuilt)

\* utils::build_full_edge_from: called with the last edge of the loop, it
\* continues the loop.
MeshBuildFullEdgeFrom ==
    /\ workload \in {"helpers", "loop"}
    /\ Room(kernel.edge_buffer, MeshEdges, 2)
    /\ \E prev \in Live(kernel.edge_buffer), v1 \in Held(kernel.vertex_buffer) :
           LET r == build_full_edge_from(kernel, prev, v1)
           IN  /\ workload = "loop" => Continues(prev)
               /\ Build("build_full_edge_from", r.k,
                     IF Continues(prev)
                     THEN [built EXCEPT !.edges = Append(@, r.index),
                                        !.origins = Append(@, built.pending),
                                        !.pending = v1]
                     ELSE NoBuilt)

\* utils::close_edge_loop: called with the last and the first edge of the
\* loop, it closes the loop.
MeshCloseEdgeLoop ==
    /\ workload \in {"helpers", "loop"}
    /\ Room(kernel.edge_buffer, MeshEdges, 2)
    /\ \E prev \in Live(kernel.edge_buffer), next \in Live(kernel.edge_buffer) :
           LET r == close_edge_loop(kernel, prev, next)
           IN  /\ workload = "loop" => Closes(prev, next)
               /\ Build("close_edge_loop", r.k,
                     IF Closes(prev, next) /\ r.index # DefaultIndex
                     THEN [built EXCEPT !.edges = Append(@, r.index),
                                        !.origins = Append(@, built.pending),
                                        !.closed = TRUE]
                     ELSE NoBuilt)

\* utils::assign_face_to_loop; the loop workload assigns faces to the loop
\* it built.
MeshAssignFaceToLoop ==
    /\ workload \in {"helpers", "loop"}
    /\ Faced
    /\ \E root \in Names(kernel), face \in Live(kernel.face_buffer) :
        /\ workload = "loop" => \E i \in DOMAIN built.edges : built.edges[i].offset = root.offset
        /\ Build("assign_face_to_loop", assign_face_to_loop(kernel, root, face), built)

\* tests::build_fan, face by face, on a mesh that holds points only: the
\* first face, with the centre point and the two rim points the faces use
\* in turn.
MeshFanFirst ==
    /\ workload = "fan"
    /\ Len(kernel.edge_buffer.buffer) = 1
    /\ \E center \in Live(kernel.point_buffer) :
       \E p0 \in Held(kernel.point_buffer), p1 \in Held(kernel.point_buffer) :
           LET r == fan_first(kernel, p0, p1, center)
           IN  Build("build_fan", r.k,
                     [NoBuilt EXCEPT !.fan = "open", !.faces = 1,
                                     !.points = << p0, p1, center >>,
                                     !.root = r.v2, !.v0 = r.v0, !.e2 = r.e2,
                                     !.spoke = r.e1])

\* A face between the first and the last.
MeshFanMiddle ==
    /\ built.fan = "open"
    /\ built.faces < MaxFanFaces - 1
    /\ LET p1 == built.points[1 + (built.faces % 2)]
           p2 == built.points[2 - (built.faces % 2)]
           r  == fan_middle(kernel, built.spoke, p1, p2, built.points[3])
       IN  Build("build_fan", r.k,
                 [built EXCEPT !.faces = @ + 1, !.spoke = r.e5])

\* The last face: it closes the fan.
MeshFanLast ==
    /\ built.fan = "open"
    /\ LET p3 == built.points[1 + (built.faces % 2)]
       IN  Build("build_fan",
                 fan_last(kernel, built.spoke, built.e2, built.v0,
                          p3, built.points[1], built.points[3]),
                 [built EXCEPT !.fan = "closed", !.faces = @ + 1])

\* A for loop over an iterator, to its end, that left kernel k.
Traverse(name, k) ==
    /\ kernel' = k
    /\ op' = name
    /\ tag' = next_tag(tag).counter
    /\ UNCHANGED << pre, origin, aborted, workload, avars, built, wvars >>

\* for edge in mesh.face(face).edges().
FaceEdgesLoop ==
    \E face \in IF workload = "fan" THEN {DefaultIndex} ELSE Held(kernel.face_buffer) :
        Traverse("face_edges", face_edges(kernel, next_tag(tag).tag, face).k)

\* for vert in mesh.face(face).vertices().
FaceVerticesLoop ==
    /\ workload = "helpers"
    /\ \E face \in Live(kernel.face_buffer) :
        Traverse("face_vertices", face_vertices(kernel, next_tag(tag).tag, face).k)

\* for edge in mesh.vertex(vert).edges().
VertexEdgesLoop ==
    /\ workload = "fan"
    /\ built.fan = "closed"
    /\ \E vert \in {built.root} :
        Traverse("vertex_edges", vertex_edges(kernel, next_tag(tag).tag, vert).k)

NextMesh ==
    \/ MeshAddPoint
    \/ MeshRemovePoint
    \/ MeshAddVertex
    \/ MeshAddFace
    \/ MeshRemoveFace
    \/ MeshBuildFullEdge
    \/ MeshBuildHalfEdge
    \/ MeshBuildFullEdgeFrom
    \/ MeshCloseEdgeLoop
    \/ MeshAssignFaceToLoop
    \/ MeshFanFirst
    \/ MeshFanMiddle
    \/ MeshFanLast
    \/ FaceEdgesLoop
    \/ FaceVerticesLoop
    \/ VertexEdgesLoop

SpecMesh == InitMesh /\ [][NextMesh]_vars

\* ---------------------------------------------------------------- the walks

\* SpecWalk builds a mesh and then steps one or two iterators over it, one
\* call of next at a time, in any order: a fan as build_fan builds it, or
\* a tangle of edges made with add_element, connect_edges and
\* remove_element, with one face whose loop is assigned at any edge, or
\* spokes: edges made with build_half_edge as the twin of any edge, at a
\* vertex or at none, connected and associated in any way, with one face.
WalkWorkloads == {"fan", "tangle", "spokes"}

InitWalk ==
    /\ kernel = NewKernel
    /\ op = "new"
    /\ pre = NewKernel
    /\ origin = NoOrigin
    /\ aborted = FALSE
    /\ workload \in WalkWorkloads
    /\ NoArena
    /\ NoMesh

\* The tangle is changed until its face is added.
Tangling ==
    /\ workload \in {"tangle", "spokes"}
    /\ Len(kernel.face_buffer.buffer) = 1

\* Mesh::add_element(Edge::default()).
TangleAddEdge ==
    /\ Tangling
    /\ workload = "tangle"
    /\ Room(kernel.edge_buffer, MaxTangleEdges, 1)
    /\ Build("add_element",
             [kernel EXCEPT !.edge_buffer = add(@, MeshElement(DefaultEdgeData)).eb],
             built)

\* utils::connect_edges, of any two edges; over spokes, an edge is
\* connected to the edge after it once.
TangleConnectEdges ==
    /\ Tangling
    /\ \E prev \in Live(kernel.edge_buffer), next \in Live(kernel.edge_buffer) :
          /\ workload = "spokes" =>
                 Cell(kernel.edge_buffer, prev.offset).data.next_index = DefaultIndex
          /\ Build("connect_edges", connect_edges(kernel, prev, next), built)

\* Mesh::remove_element(EdgeIndex), once.
TangleRemoveEdge ==
    /\ Tangling
    /\ workload = "tangle"
    /\ kernel.edge_buffer.free_cells = << >>
    /\ \E index \in Live(kernel.edge_buffer) :
          /\ Cell(kernel.edge_buffer, index.offset).generation = 1
          /\ Build("remove_element", remove_element(kernel, "edge_buffer", index),
                   built)

\* Mesh::add_element(Vertex::at_point(PointIndex::default())).
SpokeAddVertex ==
    /\ Tangling
    /\ workload = "spokes"
    /\ Room(kernel.vertex_buffer, MaxSpokeVerts, 1)
    /\ Build("add_element", add_vertex_at(kernel, DefaultIndex).k, built)

\* utils::build_half_edge, as the twin of any edge or of none.
SpokeBuildHalfEdge ==
    /\ Tangling
    /\ workload = "spokes"
    /\ Room(kernel.edge_buffer, MaxSpokeEdges, 1)
    /\ \E twin \in Held(kernel.edge_buffer), vert \in Held(kernel.vertex_buffer) :
          Build("build_half_edge", build_half_edge(kernel, twin, vert).k, built)

\* utils::assoc_vert_edge, of any vertex and edge.
SpokeAssocVertEdge ==
    /\ Tangling
    /\ workload = "spokes"
    /\ \E vert \in Live(kernel.vertex_buffer), edge \in Live(kernel.edge_buffer) :
          Build("assoc_vert_edge", assoc_vert_edge(kernel, vert, edge), built)

\* Mesh::add_element(Face::default()) and utils::assign_face_to_loop from
\* an edge.
TangleFace ==
    /\ Tangling
    /\ \E root \in Names(kernel) :
          LET f == add_default_face(kernel)
          IN  Build("assign_face_to_loop",
                    assign_face_to_loop(f.k, root, f.index), built)

\* One call of next on an iterator of a kind.
Step(kind, k, it) ==
    IF kind = "FaceEdges" THEN FaceEdges_next(k, it)
    ELSE VertexCirculator_next(k, it)

\* What the iterators are made of: FaceFn::edges() of a face, or
\* VertexFn::edges() of the vertex build_fan returned or, over spokes, of
\* a vertex of any index a caller holds.
WalkTargets ==
    {[kind |-> "FaceEdges", at |-> face] : face \in Live(kernel.face_buffer)}
    \cup (IF built.fan = "closed"
          THEN {[kind |-> "VertexCirculator", at |-> built.root]}
          ELSE {})
    \cup (IF workload = "spokes"
          THEN {[kind |-> "VertexCirculator", at |-> vert] :
                   vert \in Held(kernel.vertex_buffer)}
          ELSE {})

\* One iterator, or (but over spokes) two: of the same face, or of a face
\* and the vertex.
WalkStarts ==
    {<< a >> : a \in WalkTargets}
    \cup (IF workload = "spokes" THEN {}
          ELSE {<< a, b >> : a \in {x \in WalkTargets : x.kind = "FaceEdges"},
                             b \in {x \in WalkTargets : x.kind = "VertexCirculator"}}
               \cup {<< a, a >> : a \in {x \in WalkTargets : x.kind = "FaceEdges"}})

\* FaceFn::edges() / VertexFn::edges(): the iterator made with a tag.
NewIterator(k, t, target) ==
    IF target.kind = "FaceEdges" THEN FaceEdges_new(k, t, target.at)
    ELSE VertexCirculator_new(k, t, target.at)

\* The iterators are made, each with the tag Mesh::next_tag returned, on a
\* mesh no iterator was made of yet.
WalkStart ==
    /\ walk.state = "none"
    /\ op \notin Traversals
    /\ workload = "fan" => built.fan = "closed"
    /\ \E starts \in WalkStarts :
          LET t1  == next_tag(tag)
              t2  == next_tag(t1.counter)
              its == [i \in DOMAIN starts |->
                         NewIterator(kernel, IF i = 1 THEN t1.tag ELSE t2.tag,
                                     starts[i])]
          IN  /\ walk' = [state |-> "walking",
                          kinds |-> [i \in DOMAIN starts |-> starts[i].kind],
                          its   |-> its,
                          items |-> [i \in DOMAIN starts |-> << >>],
                          done  |-> [i \in DOMAIN starts |-> FALSE],
                          alone |-> [i \in DOMAIN starts |->
                                        Drain(starts[i].kind, kernel, its[i],
                                              edge_count(kernel) + MaxOverrun).items],
                          edges |-> edge_count(kernel)]
              /\ tag' = IF Len(starts) = 1 THEN t1.counter ELSE t2.counter
              /\ UNCHANGED << kvars, avars, built >>

\* One call of next on one of the iterators that did not return None yet.
\* The calls stop MaxOverrun items after the number of edges.
WalkStep ==
    /\ walk.state = "walking"
    /\ \E i \in DOMAIN walk.its :
          /\ ~walk.done[i]
          /\ Len(walk.items[i]) < walk.edges + MaxOverrun
          /\ \E r \in {Step(walk.kinds[i], kernel, walk.its[i])} :
                /\ kernel' = r.k
                /\ walk' = [walk EXCEPT !.its[i] = r.it,
                                        !.items[i] = @ \o r.item,
                                        !.done[i] = (r.item = << >>)]
          /\ UNCHANGED << op, pre, origin, aborted, workload, avars, mvars >>

NextOfWalk ==
    \/ MeshAddPoint
    \/ MeshFanFirst
    \/ MeshFanMiddle
    \/ MeshFanLast
    \/ TangleAddEdge
    \/ TangleConnectEdges
    \/ TangleRemoveEdge
    \/ SpokeAddVertex
    \/ SpokeBuildHalfEdge
    \/ SpokeAssocVertEdge
    \/ TangleFace
    \/ WalkStart
    \/ WalkStep

SpecWalk == InitWalk /\ [][NextOfWalk]_vars

\* ---------------------------------------------------------- the properties

\* The last operation was Kernel::defrag and it returned.
DefragReturned == op = "defrag" /\ ~aborted

Buffers == {"edge_buffer", "face_buffer", "vertex_buffer", "point_buffer"}

\* The offsets of the active cells of a buffer, and their number.
ActiveOffsets(eb) == {o \in Offsets1(eb) : is_active(Cell(eb, o))}

ActiveCount(eb) == Cardinality(ActiveOffsets(eb))

\* After a defrag: the offset of the cell that was at offset p of buffer b
\* before the call, or None when the cell was truncated.
PosAfter(b, p) ==
    IF \E q \in 1 .. Len(origin[b]) - 1 : origin[b][q + 1] = p
    THEN CHOOSE q \in 1 .. Len(origin[b]) - 1 : origin[b][q + 1] = p
    ELSE None

\* Some active cell of buffer b was moved by the defrag.
Moved(b) ==
    \E q \in ActiveOffsets(kernel[b]) : origin[b][q + 1] # q

\* The handles elements store: the buffer of the element, the field, and
\* the buffer the handle indexes.
StoredRefs ==
    {[from |-> "edge_buffer",   field |-> "twin_index",   to |-> "edge_buffer"],
     [from |-> "edge_buffer",   field |-> "next_index",   to |-> "edge_buffer"],
     [from |-> "edge_buffer",   field |-> "prev_index",   to |-> "edge_buffer"],
     [from |-> "edge_buffer",   field |-> "face_index",   to |-> "face_buffer"],
     [from |-> "edge_buffer",   field |-> "vertex_index", to |-> "vertex_buffer"],
     [from |-> "vertex_buffer", field |-> "edge_index",   to |-> "edge_buffer"],
     [from |-> "vertex_buffer", field |-> "point_index",  to |-> "point_buffer"],
     [from |-> "face_buffer",   field |-> "edge_index",   to |-> "edge_buffer"]}

\* The offset the handle stored in a field of the cell at offset o of
\* k[from] resolves to in k[to], or None.
Follow(k, ref, o) == get(k[ref.to], Cell(k[ref.from], o).data[ref.field])

\* C1: after Kernel::defrag, a handle that resolved to an element before the
\* call resolves to nothing or to that same element, in each of the four
\* buffers; it never resolves to another element.
C1_HandlesNeverAlias ==
    DefragReturned =>
        \A b \in Buffers : \A h \in Live(pre[b]) :
            get(kernel[b], h) # None => origin[b][h.offset + 1] = h.offset

\* C2: after Kernel::defrag returns, each of the four buffers has an empty
\* free list and no inactive cell besides the sentinel, and
\* inactive_element_count() is 0.
C2_NothingInactiveAfterDefrag ==
    DefragReturned =>
        /\ \A b \in Buffers :
              /\ kernel[b].free_cells = << >>
              /\ \A o \in Offsets1(kernel[b]) : is_active(Cell(kernel[b], o))
        /\ inactive_element_count(kernel) = 0

\* C3: after Kernel::defrag, every handle stored in an active element that
\* resolved to an active element x before the call resolves to x at its
\* new offset (the vertex field of an edge included).
C3_StoredHandlesFollow ==
    DefragReturned =>
        \A ref \in StoredRefs : \A p \in ActiveOffsets(pre[ref.from]) :
            LET x == Follow(pre, ref, p)
                q == PosAfter(ref.from, p)
            IN  x # None =>
                    /\ q # None
                    /\ Follow(kernel, ref, q) # None
                    /\ origin[ref.to][Follow(kernel, ref, q) + 1] = x

\* Whether next from the edge at offset e leads back to the edge at offset
\* root within fuel further steps, over active edges whose face field
\* resolves to the face at offset face.
RECURSIVE LoopCloses(_, _, _, _, _)
LoopCloses(k, face, root, e, fuel) ==
    /\ get(k.face_buffer, Cell(k.edge_buffer, e).data.face_index) = face
    /\ LET n == get(k.edge_buffer, Cell(k.edge_buffer, e).data.next_index)
       IN  /\ n # None
           /\ \/ n = root
              \/ fuel > 0 /\ LoopCloses(k, face, root, n, fuel - 1)

\* Every active face's root edge lies on a closed next-loop of active edges
\* whose face field names the face.
FaceLoopsClosed(k) ==
    \A f \in ActiveOffsets(k.face_buffer) :
        LET r == get(k.edge_buffer, Cell(k.face_buffer, f).data.edge_index)
        IN  r # None /\ LoopCloses(k, f, r, r, Len(k.edge_buffer.buffer))

\* C4: Kernel::defrag preserves face-loop closure: if before the call every
\* active face's root edge lies on a closed next-loop of active edges whose
\* face field names that face, the same holds of every active face after it.
C4_FaceLoopClosurePreserved ==
    (DefragReturned /\ FaceLoopsClosed(pre)) => FaceLoopsClosed(kernel)

\* twin(twin(e)) = e and twin(e) # e for every active edge e.
TwinInvolution(k) ==
    \A e \in ActiveOffsets(k.edge_buffer) :
        LET t == get(k.edge_buffer, Cell(k.edge_buffer, e).data.twin_index)
        IN  /\ t # None
            /\ t # e
            /\ get(k.edge_buffer, Cell(k.edge_buffer, t).data.twin_index) = e

\* C5: Kernel::defrag preserves twin involution: if twin(twin(e)) = e and
\* twin(e) # e hold for every active edge before the call, they hold for
\* every active edge after it.
C5_TwinInvolutionPreserved ==
    (DefragReturned /\ TwinInvolution(pre)) => TwinInvolution(kernel)

\* A defrag moved an edge of a kernel of twin pairs and returned.
C5_Witness ==
    /\ DefragReturned
    /\ TwinInvolution(pre)
    /\ ActiveCount(kernel.edge_buffer) >= 2
    /\ Moved("edge_buffer")

\* prev(next(e)) = e and next(prev(e)) = e for every active edge e.
NextPrevInvolution(k) ==
    \A e \in ActiveOffsets(k.edge_buffer) :
        LET n == get(k.edge_buffer, Cell(k.edge_buffer, e).data.next_index)
            p == get(k.edge_buffer, Cell(k.edge_buffer, e).data.prev_index)
        IN  /\ n # None
            /\ get(k.edge_buffer, Cell(k.edge_buffer, n).data.prev_index) = e
            /\ p # None
            /\ get(k.edge_buffer, Cell(k.edge_buffer, p).data.next_index) = e

\* C6: Kernel::defrag preserves next/prev involution: if prev(next(e)) = e
\* and next(prev(e)) = e hold for every active edge before the call (an edge
\* that is its own next included), they hold for every active edge after it.
C6_NextPrevInvolutionPreserved ==
    (DefragReturned /\ NextPrevInvolution(pre)) => NextPrevInvolution(kernel)

\* C7: after faces were removed and the face buffer was compacted, for every
\* surviving face f whose root edge r resolved and named f as its face
\* before, r's face field resolves to an active face whose root edge is r.
C7_RootEdgeRoundTrip ==
    (DefragReturned /\ has_inactive_cells(pre.face_buffer)) =>
        \A f \in ActiveOffsets(pre.face_buffer) :
            LET r == get(pre.edge_buffer, Cell(pre.face_buffer, f).data.edge_index)
            IN  (/\ r # None
                 /\ get(pre.face_buffer, Cell(pre.edge_buffer, r).data.face_index) = f)
                =>
                LET r2 == PosAfter("edge_buffer", r)
                    g  == get(kernel.face_buffer,
                              Cell(kernel.edge_buffer, r2).data.face_index)
                IN  /\ r2 # None
                    /\ g # None
                    /\ get(kernel.edge_buffer,
                           Cell(kernel.face_buffer, g).data.edge_index) = r2

\* C8: after points were removed and the point buffer was compacted, every
\* active vertex whose point handle resolved to a point p before resolves to
\* an active point with p's payload, and vertices that shared a point before
\* share one point.
C8_VertexPointsFollow ==
    (DefragReturned /\ has_inactive_cells(pre.point_buffer)) =>
        /\ \A v \in ActiveOffsets(kernel.vertex_buffer) :
              LET p == get(pre.point_buffer,
                           Cell(pre.vertex_buffer, origin.vertex_buffer[v + 1]).data.point_index)
                  q == get(kernel.point_buffer,
                           Cell(kernel.vertex_buffer, v).data.point_index)
              IN  p # None =>
                      /\ q # None
                      /\ Cell(kernel.point_buffer, q).data = Cell(pre.point_buffer, p).data
        /\ \A v \in ActiveOffsets(kernel.vertex_buffer),
              w \in ActiveOffsets(kernel.vertex_buffer) :
              LET p == get(pre.point_buffer,
                           Cell(pre.vertex_buffer, origin.vertex_buffer[v + 1]).data.point_index)
                  r == get(pre.point_buffer,
                           Cell(pre.vertex_buffer, origin.vertex_buffer[w + 1]).data.point_index)
              IN  (p # None /\ p = r) =>
                      get(kernel.point_buffer,
                          Cell(kernel.vertex_buffer, v).data.point_index)
                      = get(kernel.point_buffer,
                            Cell(kernel.vertex_buffer, w).data.point_index)

\* A defrag moved a point that two vertices share into the cell of a
\* removed point of another payload.
C8_Witness ==
    /\ DefragReturned
    /\ has_inactive_cells(pre.point_buffer)
    /\ \E v \in ActiveOffsets(kernel.vertex_buffer),
          w \in ActiveOffsets(kernel.vertex_buffer) :
          LET p == get(pre.point_buffer,
                       Cell(pre.vertex_buffer, origin.vertex_buffer[v + 1]).data.point_index)
              r == get(pre.point_buffer,
                       Cell(pre.vertex_buffer, origin.vertex_buffer[w + 1]).data.point_index)
              q == get(kernel.point_buffer,
                       Cell(kernel.vertex_buffer, v).data.point_index)
          IN  /\ v # w
              /\ p # None
              /\ p = r
              /\ q # None
              /\ q # p
              /\ origin.point_buffer[q + 1] = p
              /\ Cell(pre.point_buffer, q).data # Cell(pre.point_buffer, p).data

\* C9: after Kernel::defrag (one that found a free cell to reclaim), in each
\* buffer the active elements occupy exactly the offsets 1..n, n the number
\* of active elements of the buffer.
C9_ActivePrefix ==
    (DefragReturned /\ inactive_element_count(pre) > 0) =>
        \A b \in Buffers :
            ActiveOffsets(kernel[b]) = 1 .. ActiveCount(kernel[b])

\* C10: Kernel::defrag neither drops nor duplicates live elements: the
\* number of active elements of each buffer and active_element_count() are
\* the same before and after the call.
C10_ActiveCountsKept ==
    DefragReturned =>
        /\ \A b \in Buffers : ActiveCount(kernel[b]) = ActiveCount(pre[b])
        /\ active_element_count(kernel) = active_element_count(pre)

\* A defrag truncated a buffer that holds a live element.
C10_Witness ==
    /\ DefragReturned
    /\ \E b \in Buffers :
          /\ Len(kernel[b].buffer) < Len(pre[b].buffer)
          /\ ActiveCount(kernel[b]) > 0

\* C11: Kernel::defrag is idempotent: a second defrag called right after a
\* defrag that returned also returns, and leaves every buffer, every free
\* list and every field of every element as the first call left them.
C11_DefragIdempotent ==
    DefragReturned => defrag(kernel) = Outcome(kernel, TRUE)

\* The first defrag moved a live cell and truncated its buffer.
C11_Witness ==
    /\ DefragReturned
    /\ \E b \in Buffers :
          /\ Moved(b)
          /\ Len(kernel[b].buffer) < Len(pre[b].buffer)
    /\ defrag(kernel) = Outcome(kernel, TRUE)

\* The handles get_element is asked to resolve in buffer eb: any offset up
\* to one past the end of the buffer, any generation, 0 included.
Handles(eb) == Removable(eb)

\* C12: in each buffer of the Kernel, get_element(h) returns an element
\* exactly when the slot at h.offset is inside the buffer, is active and has
\* the generation of h; a handle of another generation, generation 0
\* included, returns nothing.
C12_GetIffActiveAndSameGeneration ==
    \A b \in Buffers : \A h \in Handles(kernel[b]) :
        get(kernel[b], h) # None <=>
            /\ h.offset < Len(kernel[b].buffer)
            /\ is_active(Cell(kernel[b], h.offset))
            /\ Cell(kernel[b], h.offset).generation = h.generation

\* The handles of offset 0, of any generation.
SentinelHandles == {Index(INVALID_COMPONENT_OFFSET, g) : g \in 0 .. U32Max}

\* C13: in each buffer of the Kernel, get_element of a handle of offset 0
\* returns nothing, whatever the generation of the handle, in the initial
\* state and after any sequence of add_element, remove_element and defrag.
C13_OffsetZeroNeverResolves ==
    \A b \in Buffers : \A h \in SentinelHandles : get(kernel[b], h) = None

\* After a defrag that moved a live cell, the handle of offset 0 that has
\* the generation of the sentinel cell resolves to nothing.
C13_Witness ==
    /\ DefragReturned
    /\ \E b \in Buffers :
          /\ Moved(b)
          /\ get(kernel[b], Index(0, Cell(kernel[b], 0).generation)) = None

\* C18: in each buffer of the Kernel, remove_element of a handle that does
\* not resolve (already removed, of another generation, of offset 0, past
\* the end of the buffer) changes nothing, and remove_element called twice
\* with one handle leaves what one call leaves.
C18_RemoveOfUnresolvedIsNoOp ==
    \A b \in Buffers : \A h \in Handles(kernel[b]) :
        /\ get(kernel[b], h) = None => remove(kernel[b], h) = kernel[b]
        /\ remove(remove(kernel[b], h), h) = remove(kernel[b], h)

\* An element was removed: its handle names an inactive cell that is in the
\* free list, and removing it again changes nothing.
C18_Witness ==
    /\ op = "edit"
    /\ \E b \in Buffers : \E h \in Handles(kernel[b]) :
          /\ h.offset \in Offsets1(kernel[b])
          /\ ~is_active(Cell(kernel[b], h.offset))
          /\ Cell(kernel[b], h.offset).generation = h.generation + 1
          /\ \E i \in 1 .. Len(kernel[b].free_cells) :
                 kernel[b].free_cells[i].offset = h.offset
          /\ remove(kernel[b], h) = kernel[b]

\* A handle of a cell of the standalone buffer (offset 1 or more, inside the
\* buffer) that is free or has another generation than the handle.
Stale(sb, handle) ==
    /\ handle.offset \in 1 .. Len(sb.buffer) - 1
    /\ \/ ~is_active_cell(sb, handle.offset)
       \/ sb.generations[handle.offset + 1] # handle.generation

\* C14: in the standalone ElementBuffer, get and get_mut of the default
\* handle (0, 0) and of any stale handle return the empty option: never the
\* sentinel cell, never the element of another generation.
C14_DefaultAndStaleHandlesEmpty ==
    impl = "standalone" /\ ~halted =>
        \A h \in ArenaHandles :
            h = DefaultHandle \/ Stale(arena, h) => eb_get(arena, h) = None

\* Only push and remove were called, each remove with a handle that
\* resolved, and no call panicked.
PushesAndRemoves == history \in Tame /\ ~halted

\* C15: in both arenas, after any sequence of push and of remove of handles
\* that resolve, every handle push returned whose element was not removed
\* since resolves to exactly the element pushed with it; while nothing was
\* removed the handles have generation 1 and the offsets 1, 2, 3, ... in
\* push order.
C15_PushGetRoundTrip ==
    /\ PushesAndRemoves =>
           \A i \in 1 .. Len(issued) :
               /\ Resolve(arena, issued[i].handle) = issued[i].handle.offset
               /\ ElementAt(arena, issued[i].handle.offset) = issued[i].element
    /\ history = "pushes" =>
           \A i \in 1 .. Len(issued) : issued[i].handle = Handle(i, 1)

\* Two handles are held after a remove: one of a cell that was reused, with
\* a generation above 1, and one of generation 1, with different elements.
C15_Witness ==
    /\ PushesAndRemoves
    /\ history = "removes"
    /\ \E i, j \in 1 .. Len(issued) :
          /\ issued[i].handle.generation > 1
          /\ issued[j].handle.generation = 1
          /\ issued[i].element # issued[j].element
          /\ ElementAt(arena, issued[i].handle.offset) = issued[i].element

\* Mesh::point_count (face_count, edge_count and vertex_count alike): the
\* len() of the buffer less the sentinel.
point_count(eb) == len(eb) - 1

\* The numbers of active elements an arena reports: len() of the standalone
\* buffer; len() and the count of the Mesh for the buffer of the kernel.
Counts(a) ==
    IF impl = "kernel"
    THEN {[len |-> len(a), count |-> point_count(a)]}
    ELSE {[len |-> n, count |-> n] : n \in eb_len(a)}

HasInactiveCells(a) ==
    IF impl = "kernel" THEN has_inactive_cells(a) ELSE eb_has_inactive_cells(a)

\* C16: in both arenas, for a handle h that resolves, after remove(h): get(h)
\* returns nothing, len() (and the count of the Mesh) is exactly one less,
\* has_inactive_cells() is true, and every handle that resolved to another
\* cell resolves to it still.
C16_RemoveHides ==
    \A h \in ArenaHandles :
        ~halted /\ Resolve(arena, h) >= 0 =>
            \A r \in RemoveOutcomes(arena, h) :
                r.ok =>
                    /\ Resolve(r.sb, h) = None
                    /\ Counts(r.sb) =
                           {[len |-> c.len - 1, count |-> c.count - 1] : c \in Counts(arena)}
                    /\ HasInactiveCells(r.sb)
                    /\ \A g \in ArenaHandles :
                           Resolve(arena, g) >= 0 /\ g.offset # h.offset =>
                               Resolve(r.sb, g) = Resolve(arena, g)

\* C17: in both arenas, after remove(h) of a handle that resolves and then
\* push(v), a new handle of the offset of h has a generation strictly
\* greater than that of h, get(h) still returns nothing and get of the new
\* handle returns v, however many times the cell was removed and refilled
\* before.
C17_ReuseBumpsGeneration ==
    \A h \in ArenaHandles :
        ~halted /\ Resolve(arena, h) >= 0 =>
            \A r \in RemoveOutcomes(arena, h) : \A v \in Elements :
                \A p \in PushOutcomes(r.sb, v) :
                    r.ok /\ p.ok /\ p.handle.offset = h.offset =>
                        /\ p.handle.generation > h.generation
                        /\ Resolve(p.sb, h) = None
                        /\ Resolve(p.sb, p.handle) = p.handle.offset
                        /\ ElementAt(p.sb, p.handle.offset) = v

\* A handle of the standalone buffer that names the cell of an active
\* element: offset 1 or more, inside the buffer, not free, of the
\* generation of the cell.
NamesActive(sb, handle) ==
    /\ handle.offset \in 1 .. Len(sb.buffer) - 1
    /\ is_active_cell(sb, handle.offset)
    /\ sb.generations[handle.offset + 1] = handle.generation

\* C19: in the standalone ElementBuffer, remove(h) has an effect only when
\* the slot of h is active and has the generation of h: a stale handle or
\* one of offset 0 changes neither the free set nor any generation, and
\* offset 0 is never marked free.
C19_RemoveOnlyOfMatchingHandle ==
    impl = "standalone" /\ ~halted =>
        /\ 0 \notin arena.free_cells
        /\ \A h \in ArenaHandles :
               h.offset < Len(arena.buffer) /\ ~NamesActive(arena, h) =>
                   \A r \in eb_remove(arena, h) :
                       /\ r.sb.free_cells = arena.free_cells
                       /\ r.sb.generations = arena.generations

\* C20: after clear() the standalone ElementBuffer is as a new one (len() is
\* 0, no inactive cell) and get(h) returns the empty option for every handle
\* that was issued before the clear, right after the clear and after any
\* later pushes.
C20_ClearInvalidatesHandles ==
    impl = "standalone" /\ history = "cleared" /\ ~halted =>
        \* elements are only pushed after the clear: the buffer holds the
        \* sentinel alone exactly when nothing was pushed since
        /\ Len(arena.buffer) = 1 =>
               /\ arena = NewElementBuffer
               /\ eb_len(arena) = {0}
               /\ ~eb_has_inactive_cells(arena)
        /\ \A h \in old : eb_get(arena, h) = None

\* Only push and remove were called, each remove with a handle push
\* returned whose element was not removed before, and no call panicked.
LiveHandlesOnly == history \in {"pushes", "removes"} /\ ~halted

\* The items of a sequence, as a set.
Items(seq) == {seq[i] : i \in 1 .. Len(seq)}

\* C21: in the standalone ElementBuffer, after any sequence of push and of
\* remove of live handles, iter() visits exactly the handles pushed and
\* not removed, each once, with its generation and its element, in
\* ascending offset order from offset 1 on, and iter().count() is len().
C21_IterVisitsLiveHandles ==
    impl = "standalone" /\ LiveHandlesOnly =>
        LET items == iter(arena)
        IN  /\ Items(items) = Items(issued)
            /\ Len(items) = Len(issued)
            /\ \A i \in 1 .. Len(items) : items[i].handle.offset >= 1
            /\ \A i, j \in 1 .. Len(items) :
                   i < j => items[i].handle.offset < items[j].handle.offset
            /\ eb_len(arena) = {Len(items)}

\* A cell was removed and another reused with a greater generation: iter
\* visits the reused cell and skips the free one before it.
C21_Witness ==
    /\ impl = "standalone"
    /\ LiveHandlesOnly
    /\ history = "removes"
    /\ \E i \in 1 .. Len(iter(arena)) :
          /\ iter(arena)[i].handle.generation > 1
          /\ iter(arena)[i].handle.offset = 2
    /\ 1 \in arena.free_cells
    /\ Items(iter(arena)) = Items(issued)

\* A sequence of indices is in ascending offset order.
Ascending(indices) ==
    \A i, j \in 1 .. Len(indices) : i < j => indices[i].offset < indices[j].offset

\* C22: Mesh::faces(), Mesh::edges() and Mesh::vertices() visit, in
\* ascending offset order, exactly the handles of the elements added and
\* not removed: each index yielded is the handle add_element returned for
\* the element (the offset and the generation of its cell), no removed
\* element is visited, and the number visited is face_count() /
\* edge_count() / vertex_count().
C22_MeshIteratorsYieldHandles ==
    /\ Items(faces(kernel)) = Live(kernel.face_buffer)
    /\ Items(edges(kernel)) = Live(kernel.edge_buffer)
    /\ Items(vertices(kernel)) = Live(kernel.vertex_buffer)
    /\ Ascending(faces(kernel)) /\ Ascending(edges(kernel)) /\ Ascending(vertices(kernel))
    /\ Len(faces(kernel)) = face_count(kernel)
    /\ Len(edges(kernel)) = edge_count(kernel)
    /\ Len(vertices(kernel)) = vertex_count(kernel)

\* C23: len() of each buffer of the Kernel is the number of its active
\* slots, the sentinel of offset 0 not counted, and active_element_count()
\* is the sum of the four: the number of elements added and not removed,
\* 0 for a new Kernel.
C23_LenCountsActiveSlots ==
    /\ \A b \in Buffers : len(kernel[b]) = ActiveCount(kernel[b])
    /\ active_element_count(kernel) =
           ActiveCount(kernel.face_buffer) + ActiveCount(kernel.edge_buffer)
               + ActiveCount(kernel.vertex_buffer) + ActiveCount(kernel.point_buffer)
    /\ kernel = NewKernel => active_element_count(kernel) = 0

\* C24: remove_element does not cascade: it changes the buffer of the type
\* of the element only and leaves the other three buffers as they were;
\* after an edge was removed, the vertex it names is as active as before
\* and a vertex whose edge handle named the edge is still active, with an
\* edge handle that no longer resolves.
C24_RemoveDoesNotCascade ==
    \A b \in Buffers : \A h \in Handles(kernel[b]) :
        LET k2 == remove_element(kernel, b, h)
        IN  /\ \A c \in Buffers \ {b} : k2[c] = kernel[c]
            /\ b = "edge_buffer" /\ get(kernel.edge_buffer, h) # None =>
                   /\ get(k2.edge_buffer, h) = None
                   /\ get(k2.vertex_buffer, Cell(kernel.edge_buffer, h.offset).data.vertex_index)
                          = get(kernel.vertex_buffer,
                                Cell(kernel.edge_buffer, h.offset).data.vertex_index)
                   /\ \A v \in ActiveOffsets(kernel.vertex_buffer) :
                          get(kernel.edge_buffer, Cell(kernel.vertex_buffer, v).data.edge_index)
                              = h.offset =>
                              /\ is_active(Cell(k2.vertex_buffer, v))
                              /\ get(k2.edge_buffer,
                                     Cell(k2.vertex_buffer, v).data.edge_index) = None

\* An edge was removed: an active vertex names, in its edge handle, a cell
\* of the edge buffer that is now inactive, and an inactive edge names a
\* vertex that is still active.
C24_Witness ==
    /\ op = "edit"
    /\ \E v \in ActiveOffsets(kernel.vertex_buffer) :
          LET e == Cell(kernel.vertex_buffer, v).data.edge_index
          IN  /\ e.offset \in Offsets1(kernel.edge_buffer)
              /\ ~is_active(Cell(kernel.edge_buffer, e.offset))
              /\ Cell(kernel.edge_buffer, e.offset).generation = e.generation + 1
              /\ get(kernel.vertex_buffer,
                     Cell(kernel.edge_buffer, e.offset).data.vertex_index) = v

\* The offset of the edge the next handle of the edge at offset e resolves
\* to, or None.
NextOf(k, e) == get(k.edge_buffer, Cell(k.edge_buffer, e).data.next_index)

\* The offsets of the edges met from the edge at offset e along next, in at
\* most fuel steps.
RECURSIVE NextWalk(_, _, _)
NextWalk(k, e, fuel) ==
    {e} \cup (IF fuel = 0 \/ NextOf(k, e) = None
              THEN {}
              ELSE NextWalk(k, NextOf(k, e), fuel - 1))

\* The edge at offset r lies on a closed next-loop of live edges.
OnClosedLoop(k, r) ==
    /\ NextOf(k, r) # None
    /\ r \in NextWalk(k, NextOf(k, r), Len(k.edge_buffer.buffer))

\* The edges of that loop.
LoopOf(k, r) == NextWalk(k, r, Len(k.edge_buffer.buffer))

\* C25: assign_face_to_loop(root, f), called with a live face f and a root
\* edge on a closed next-loop of live edges, sets the root edge of f to
\* root and the face field to f on exactly the edges of the loop: on all of
\* them, whatever face they carried before, and on no other edge.
C25_AssignStampsWholeLoop ==
    \A root \in Live(kernel.edge_buffer) : \A f \in Live(kernel.face_buffer) :
        OnClosedLoop(kernel, root.offset) =>
            LET k2 == assign_face_to_loop(kernel, root, f)
            IN  /\ Cell(k2.face_buffer, f.offset).data.edge_index = root
                /\ \A e \in Offsets1(kernel.edge_buffer) :
                       IF e \in LoopOf(kernel, root.offset)
                       THEN Cell(k2.edge_buffer, e).data.face_index = f
                       ELSE Cell(k2.edge_buffer, e) = Cell(kernel.edge_buffer, e)

\* C26: in a closed loop built with build_full_edge, then
\* build_full_edge_from for each further vertex, then close_edge_loop, each
\* loop edge starts at the vertex it was built from, is followed along next
\* by the loop edge built after it (the last by the first), and its twin
\* starts at the vertex its next edge starts at.
C26_LoopEdgesKeepTheirVertices ==
    built.closed =>
        \A i \in DOMAIN built.edges :
            LET e == built.edges[i]
            IN  /\ EdgeFn_vertex(kernel, e) = built.origins[i]
                /\ EdgeFn_next(kernel, e) = built.edges[(i % Len(built.edges)) + 1]
                /\ EdgeFn_vertex(kernel, EdgeFn_twin(kernel, e))
                       = EdgeFn_vertex(kernel, EdgeFn_next(kernel, e))

\* A loop of three edges over three different vertex indices has just been
\* closed.
C26_Witness ==
    /\ op = "close_edge_loop"
    /\ built.closed
    /\ Len(built.edges) = 3
    /\ Cardinality({built.origins[i] : i \in DOMAIN built.origins}) = 3

\* The construction helpers of the claims on them.
Helpers ==
    {"build_full_edge", "build_full_edge_from", "close_edge_loop", "assign_face_to_loop"}

\* C27: after any sequence of build_full_edge, build_full_edge_from,
\* close_edge_loop and assign_face_to_loop calls (on a mesh whose vertices
\* and faces were added with add_element), every active half-edge e, twins
\* included, has prev(next(e)) = e and next(prev(e)) = e.
C27_HelpersKeepNextPrevInvolution ==
    (workload = "helpers" /\ op \in Helpers) => NextPrevInvolution(kernel)

\* The face index names an active face cell: its offset is that of an
\* active cell, its generation that of the cell or 0 (Index::new).
LiveFace(k, index) ==
    \E o \in ActiveOffsets(k.face_buffer) :
        /\ index.offset = o
        /\ index.generation \in {0, Cell(k.face_buffer, o).generation}

\* The data of the edge a live index names, and of its twin: << data >>,
\* or << >> when the twin index does not resolve.
EdgeData(k, e) == Cell(k.edge_buffer, e.offset).data

TwinData(k, e) ==
    IF get(k.edge_buffer, EdgeData(k, e).twin_index) = None THEN << >>
    ELSE << Cell(k.edge_buffer, EdgeData(k, e).twin_index.offset).data >>

\* C28 as stated: is_boundary() is true of an edge if and only if its own
\* face index or its twin's face index is the invalid index (offset 0).
C28_BoundaryIffInvalidFaceHandle ==
    \A e \in Live(kernel.edge_buffer) :
        is_boundary(kernel, e) <=>
            \/ ~is_valid(EdgeFn_face(kernel, e))
            \/ ~is_valid(EdgeFn_face(kernel, EdgeFn_twin(kernel, e)))

\* C28, amended: is_boundary() is true of an edge if and only if its own
\* face index or its twin's face index does not name an active face (it is
\* the invalid index, or the face it named was removed, or the edge has no
\* twin that resolves); for an edge with a face whose twin has no face it
\* is true.
C28_BoundaryIffFaceMissing ==
    \A e \in Live(kernel.edge_buffer) :
        /\ is_boundary(kernel, e) <=>
               \/ ~LiveFace(kernel, EdgeData(kernel, e).face_index)
               \/ TwinData(kernel, e) = << >>
               \/ ~LiveFace(kernel, TwinData(kernel, e)[1].face_index)
        /\ ( /\ LiveFace(kernel, EdgeData(kernel, e).face_index)
             /\ TwinData(kernel, e) # << >>
             /\ TwinData(kernel, e)[1].face_index = DefaultIndex ) => is_boundary(kernel, e)

\* A mesh with an edge between two active faces (not a boundary edge), an
\* edge of an active face whose twin names a removed face, and an edge of an
\* active face whose twin has no face (both boundary edges).
C28_Witness ==
    /\ \E e \in Live(kernel.edge_buffer) : ~is_boundary(kernel, e)
    /\ \E e \in Live(kernel.edge_buffer) :
        /\ LiveFace(kernel, EdgeData(kernel, e).face_index)
        /\ TwinData(kernel, e) # << >>
        /\ is_valid(TwinData(kernel, e)[1].face_index)
        /\ is_boundary(kernel, e)
    /\ \E e \in Live(kernel.edge_buffer) :
        /\ LiveFace(kernel, EdgeData(kernel, e).face_index)
        /\ TwinData(kernel, e) # << >>
        /\ TwinData(kernel, e)[1].face_index = DefaultIndex
        /\ is_boundary(kernel, e)

\* The offsets of the n edges met from the edge at offset o along next, in
\* that order.
RECURSIVE LoopSeq(_, _, _)
LoopSeq(k, o, n) ==
    IF n = 0 THEN << >> ELSE << o >> \o LoopSeq(k, NextOf(k, o), n - 1)

\* The offsets of a sequence of indices.
OffsetsOf(items) == [i \in DOMAIN items |-> items[i].offset]

\* C29: for a live face whose root edge handle resolves and lies on a
\* closed next-loop of n live edges, a for loop over FaceFn::edges() visits
\* exactly those n edges, each once, in next order from the root, and a
\* for loop over FaceFn::vertices() the vertex indices of those edges in
\* the same order.
C29_FaceEdgesYieldTheLoop ==
    \A f \in Live(kernel.face_buffer) :
        LET r == get(kernel.edge_buffer, FaceFn_edge(kernel, f))
        IN  (r # None /\ OnClosedLoop(kernel, r)) =>
                LET loop == LoopSeq(kernel, r, Cardinality(LoopOf(kernel, r)))
                    t    == next_tag(tag).tag
                IN  /\ OffsetsOf(face_edges(kernel, t, f).items) = loop
                    /\ face_vertices(kernel, t, f).items
                           = [i \in DOMAIN loop |->
                                 Cell(kernel.edge_buffer, loop[i]).data.vertex_index]

\* The point of the vertex a vertex index names, the default index when it
\* does not resolve.
PointOf(k, vert) ==
    IF get(k.vertex_buffer, vert) # None
    THEN Cell(k.vertex_buffer, vert.offset).data.point_index
    ELSE DefaultIndex

\* C30: for the vertex build_fan returns, whose outgoing edges form a fan
\* of n faces around one point once the last face is built, a for loop over VertexFn::edges() visits
\* exactly n different edges: first the outgoing edge of the vertex, then
\* from each edge the twin of its prev; every edge after the first is not
\* a boundary edge and starts at a vertex of the point of the vertex.
C30_CirculatorYieldsTheFan ==
    built.fan = "closed" =>
        LET items == vertex_edges(kernel, next_tag(tag).tag, built.root).items
        IN  /\ Len(items) = built.faces
            /\ Cardinality({items[i].offset : i \in DOMAIN items}) = built.faces
            /\ items[1] = VertexFn_edge(kernel, built.root)
            /\ \A i \in 2 .. Len(items) :
                /\ items[i] = EdgeFn_twin(kernel, EdgeFn_prev(kernel, items[i - 1]))
                /\ ~is_boundary(kernel, items[i])
                /\ PointOf(kernel, EdgeFn_vertex(kernel, items[i]))
                       = PointOf(kernel, built.root)

\* The active offsets of a standalone buffer: the cells after the sentinel
\* that free_cells does not contain.
ActiveOffsets1(sb) == {o \in 1 .. Len(sb.buffer) - 1 : o \notin sb.free_cells}

\* The free offsets inside it, after the sentinel.
FreeOffsets1(sb) == {o \in 1 .. Len(sb.buffer) - 1 : o \in sb.free_cells}

\* C31: every pair (f, a) of the plan build_rectify_plan returns has f < a,
\* f a free offset and a an active offset of at least 1; the f increase
\* strictly and the a decrease strictly along the plan; the plan has at
\* most min(|free|, number of active offsets) pairs, and none for an empty
\* buffer, a buffer with no active cell, and a buffer whose free cells
\* are all after its active cells.
C31_RectifyPlanPairs ==
    plan.state = "built" =>
        LET sb    == plan.before
            pairs == plan.pairs
        IN  /\ \A i \in DOMAIN pairs :
                  /\ pairs[i][1] < pairs[i][2]
                  /\ pairs[i][1] \in sb.free_cells
                  /\ pairs[i][2] \in ActiveOffsets1(sb)
            /\ \A i, j \in DOMAIN pairs :
                  i < j => pairs[i][1] < pairs[j][1] /\ pairs[i][2] > pairs[j][2]
            /\ Len(pairs) <= Cardinality(sb.free_cells)
            /\ Len(pairs) <= Cardinality(ActiveOffsets1(sb))
            /\ Len(sb.buffer) = 1 => pairs = << >>
            /\ ActiveOffsets1(sb) = {} => pairs = << >>
            /\ (\A f \in FreeOffsets1(sb) : \A a \in ActiveOffsets1(sb) : a < f)
                   => pairs = << >>

\* A plan of two pairs was built, of a buffer whose sentinel was removed.
C31_Witness ==
    /\ plan.state = "built"
    /\ Len(plan.pairs) = 2
    /\ 0 \in plan.before.free_cells

\* The active cells of a standalone buffer that hold element e.
Holding(sb, e) == {o \in ActiveOffsets1(sb) : sb.buffer[o + 1] = e}

\* C32: after the rectify plan of a buffer is applied to it (the element at
\* each a moved into the cell at f, a marked free), the active offsets are
\* exactly 1..=active count, every offset above is inactive, and the live
\* elements are those the buffer held.
C32_AppliedPlanCompacts ==
    plan.state = "applied" =>
        LET count == Cardinality(ActiveOffsets1(plan.before))
        IN  /\ ActiveOffsets1(arena) = 1 .. count
            /\ \A o \in count + 1 .. Len(arena.buffer) - 1 : o \in arena.free_cells
            /\ \A e \in TestElements :
                  Cardinality(Holding(arena, e)) = Cardinality(Holding(plan.before, e))

\* A plan of two pairs was applied.
C32_Witness ==
    /\ plan.state = "applied"
    /\ Len(plan.pairs) = 2
    /\ arena # plan.before

\* Sequence s is the start of sequence t.
IsPrefix(s, t) == Len(s) <= Len(t) /\ s = SubSeq(t, 1, Len(s))

\* C33: two iterators that drew distinct tags and are stepped in any order
\* over the same mesh each return exactly the items a for loop over the
\* iterator alone returns, and then None: at every step the items an
\* iterator returned are the start of that sequence, and all of it once
\* the iterator returned None.
C33_InterleavedWalksAgree ==
    (walk.state = "walking" /\ Len(walk.its) = 2) =>
        /\ walk.its[1].tag # walk.its[2].tag
        /\ \A i \in DOMAIN walk.its :
              /\ IsPrefix(walk.items[i], walk.alone[i])
              /\ walk.done[i] => walk.items[i] = walk.alone[i]

\* C34: an iterator made by FaceFn::edges() or VertexFn::edges() and
\* stepped alone, on a fan, on a tangle of edges or on spokes with
\* malformed next, prev and twin pointers, returns None after at most one
\* item more than the mesh has active edges.
C34_WalkAloneEnds ==
    (walk.state = "walking" /\ Len(walk.its) = 1) =>
        Len(walk.items[1]) <= Cardinality(ActiveOffsets(kernel.edge_buffer)) + 1

\* A VertexCirculator stepped alone over three spokes whose twin pointers
\* are malformed (no pairing of the edges) returned an item for every
\* active edge and then None; a FaceEdges iterator made next, of the face
\* of the same spokes, returns one item more than that before None.
C34_Witness ==
    /\ walk.state = "walking"
    /\ Len(walk.its) = 1
    /\ workload = "spokes"
    /\ walk.kinds[1] = "VertexCirculator"
    /\ walk.done[1]
    /\ Len(walk.items[1]) = Cardinality(ActiveOffsets(kernel.edge_buffer))
    /\ Len(walk.items[1]) >= 3
    /\ ~TwinInvolution(kernel)
    /\ \E face \in Live(kernel.face_buffer) :
          Len(Drain("FaceEdges", kernel,
                    FaceEdges_new(kernel, next_tag(tag).tag, face),
                    walk.edges + MaxOverrun).items)
              = Cardinality(ActiveOffsets(kernel.edge_buffer)) + 1

\* C35: Kernel::defrag returns, without panicking, from every state
\* reached by add_element, remove_element, the construction helpers and
\* earlier defrag calls, whatever edge references the elements hold.
C35_DefragRunsToCompletion ==
    op = "defrag" => ~aborted

\* C36: in a kernel buffer driven by add_element and remove_element every
\* cell's generation is at least 1 and below u32::max_value(), so the
\* increment of remove never overflows; a step leaves a generation as it
\* is or sets it to the old one plus 1, and to 1 where that sum is
\* u32::max_value().
C36_KernelGenerationsStayPositive ==
    [][impl = "kernel" =>
          \A o \in 0 .. Len(arena'.buffer) - 1 :
              LET g == GenerationAt(arena', o)
              IN  /\ g >= 1
                  /\ g < U32Max
                  /\ o < Len(arena.buffer) =>
                         LET was == GenerationAt(arena, o)
                         IN  \/ g = was
                             \/ was + 1 # U32Max /\ g = was + 1
                             \/ was + 1 = U32Max /\ g = 1]_vars

\* The cell of offset 1 was removed at the generation before
\* u32::max_value(): it is on the free list with generation 1.
C36_Witness ==
    /\ impl = "kernel"
    /\ Len(arena.buffer) > 1
    /\ Cell(arena, 1).generation = 1
    /\ Cell(arena, 1).status = "INACTIVE"
    /\ \E i \in DOMAIN arena.free_cells : arena.free_cells[i] = Index(1, 1)

\* C37: in the ElementBuffer of hedge-element-buffer, while every remove
\* is given a handle that resolves, no cell of offset 1 or more has
\* generation 0 and no call aborts: a remove at the largest generation
\* wraps the generation to 1.
C37_StandaloneGenerationsStayPositive ==
    (impl = "standalone" /\ history \in Tame) =>
        /\ ~halted
        /\ \A o \in 1 .. Len(arena.generations) - 1 : arena.generations[o + 1] >= 1

\* The free list of a buffer names each inactive cell after the sentinel
\* once, with the generation the cell has, and nothing else.
FreeListConsistent(eb) ==
    /\ \A i, j \in DOMAIN eb.free_cells :
          eb.free_cells[i].offset = eb.free_cells[j].offset => i = j
    /\ {eb.free_cells[i].offset : i \in DOMAIN eb.free_cells}
          = Offsets1(eb) \ ActiveOffsets(eb)
    /\ \A i \in DOMAIN eb.free_cells :
          LET index == eb.free_cells[i]
          IN  index.offset \in Offsets1(eb) =>
                  index.generation = Cell(eb, index.offset).generation

\* C38: after any sequence of add_element, remove_element and defrag calls
\* that returned, in each of the four buffers of the kernel the free list
\* holds exactly the offsets of the inactive cells after the sentinel,
\* each once, with the generation stored in the cell.
C38_FreeListsConsistent ==
    ~aborted => \A b \in Buffers : FreeListConsistent(kernel[b])

\* The elements add_element is called with, per buffer.
AddedElements ==
    [edge_buffer   |-> {MeshElement(DefaultEdgeData)},
     face_buffer   |-> {MeshElement(DefaultFaceData)},
     vertex_buffer |-> {MeshElement(DefaultVertexData)},
     point_buffer  |-> {MeshElement([position |-> position]) : position \in Positions}]

\* C39: in every state reached by add_element, remove_element and defrag
\* calls that returned, an add_element call leaves every active element
\* of its buffer active at its offset, with its generation and payload,
\* and returns an index that is the index of none of them.
C39_AddKeepsLiveElements ==
    ~aborted =>
        \A b \in Buffers : \A element \in AddedElements[b] :
            LET r == add(kernel[b], element)
            IN  \A h \in Live(kernel[b]) :
                    /\ Cell(r.eb, h.offset) = Cell(kernel[b], h.offset)
                    /\ r.index # h

\* The handle stored in a field of the cell at offset o of k[from].
Stored(k, ref, o) == Cell(k[ref.from], o).data[ref.field]

\* C40: after Kernel::defrag returned, a valid handle stored in an active
\* element that resolved to nothing before the call resolves to nothing
\* in the element after the call.
C40_DanglingStaysDangling ==
    DefragReturned =>
        \A ref \in StoredRefs : \A p \in ActiveOffsets(pre[ref.from]) :
            (/\ is_valid(Stored(pre, ref, p))
             /\ Follow(pre, ref, p) = None
             /\ PosAfter(ref.from, p) # None)
                => Follow(kernel, ref, PosAfter(ref.from, p)) = None

====
